---- MODULE Spec2Model ----
(***************************************************************************)
(* State-machine model of the i18n-plus framework: the I18nTranslator      *)
(* (lookup, interpolation, validation, load / unload) and the              *)
(* I18nPlusManager registry that routes calls to registered translators.   *)
(*                                                                         *)
(* JavaScript strings are modelled as sequences of atoms.  An atom is one  *)
(* character ("{", "}", "_", " ", a letter) or an indivisible word such as *)
(* "context"; a string has exactly one spelling in atoms.  Locale codes    *)
(* and plugin ids are never taken apart by the code and stay TLA+ strings. *)
(***************************************************************************)
EXTENDS Integers, Sequences, FiniteSets, TLC

VARIABLES
    translators,  \* I18nPlusManager.translators: registered id -> translator
    order,        \* the keys of that Map in insertion order
    listeners,    \* I18nPlusManager.eventListeners: event name -> callbacks, in insertion order
    files,        \* the vault adapter's files: path -> content
    last,         \* the outcome of the most recent call (return value, callbacks, events)
    pc,           \* position of the scripted caller, or of every async function under way
    input,        \* the arguments of the pure function under check
    cloud,        \* the CloudManager's fields and its manifest requests in flight
    window,       \* the global object: i18nPlus, the manager singleton, ready listeners, adapters
    settings      \* I18nPlusPlugin.settings

vars == <<translators, order, listeners, files, last, pc, input, cloud, window,
         settings>>

-----------------------------------------------------------------------------
(* JavaScript values *)

Str(s) == [t |-> "string", s |-> s, n |-> 0]
Num(n) == [t |-> "number", s |-> <<>>, n |-> n]
Undefined == [t |-> "undefined", s |-> <<>>, n |-> 0]
Null == [t |-> "object", s |-> <<"null">>, n |-> 0]
NativeFn(name) == [t |-> "function", s |-> name, n |-> 0]

\* typeof v
TypeOf(v) == v.t

\* !v  (false, 0, "", null, undefined are falsy)
Falsy(v) ==
    \/ v.t = "undefined"
    \/ v = Null
    \/ v.t = "string" /\ v.s = <<>>
    \/ v.t = "number" /\ v.n = 0

DigitAtom == <<"0", "1", "2", "3", "4", "5", "6", "7", "8", "9">>

RECURSIVE Digits(_)
\* decimal digits of a natural number, most significant first
Digits(n) ==
    IF n < 10 THEN <<DigitAtom[n + 1]>>
    ELSE Digits(n \div 10) \o <<DigitAtom[(n % 10) + 1]>>

\* String(v) and `${v}`
ToStr(v) ==
    CASE v.t = "string" -> v.s
      [] v.t = "number" -> Digits(v.n)
      [] v.t = "function" -> <<"function ">> \o v.s \o <<"() { [native code] }">>
      [] v.t = "undefined" -> <<"undefined">>
      [] OTHER -> <<"null">>

\* \w of the regular expression: letters, digits and underscore
WordAtoms == {"k", "c", "u", "n", "m", "_", "context", "toString", "0", "1",
              "2", "3", "4", "5", "6", "7", "8", "9"}

IsWord(a) == a \in WordAtoms

\* Own property names every plain object inherits from Object.prototype
\* that consist of word characters only.
ObjectPrototypeNames == {<<"toString">>}

ContextName == <<"context">>

(* A params argument: given = FALSE is `undefined`, otherwise an object    *)
(* literal with the own properties `fields`.                               *)
NoParams == [given |-> FALSE, fields |-> <<>>]
Params(f) == [given |-> TRUE, fields |-> f]

\* obj[name] on a plain object: own property, else the prototype chain
GetProp(fields, name) ==
    IF name \in DOMAIN fields THEN fields[name]
    ELSE IF name \in ObjectPrototypeNames THEN NativeFn(name)
    ELSE Undefined

\* const { context: _ctx, ...interpolationParams } = params
WithoutContext(fields) ==
    [name \in (DOMAIN fields) \ {ContextName} |-> fields[name]]

-----------------------------------------------------------------------------
(* Dictionaries.  A payload is what a caller hands to loadDictionary /     *)
(* validateDictionary (`dict: unknown`): t is its typeof-kind, meta its    *)
(* $meta property, entries its other own properties.                       *)

NoMeta ==
    [t |-> "undefined", locale |-> Undefined, dictVersion |-> Undefined,
     sourceHash |-> Undefined]
MetaObj(loc, ver) == [NoMeta EXCEPT !.t = "object", !.locale = loc, !.dictVersion = ver]
MetaNull == [NoMeta EXCEPT !.t = "null"]
MetaStr == [NoMeta EXCEPT !.t = "string"]
MetaNum == [NoMeta EXCEPT !.t = "number"]

Dict(meta, entries) == [t |-> "object", meta |-> meta, entries |-> entries]
NonObject(kind) == [t |-> kind, meta |-> NoMeta, entries |-> <<>>]

\* typeof dict[key] === 'string'
HasString(dict, key) ==
    /\ key \in DOMAIN dict.entries
    /\ TypeOf(dict.entries[key]) = "string"

-----------------------------------------------------------------------------
(* I18nTranslator *)

\* new I18nTranslator(options)
constructor(options) ==
    [pluginId |-> options.pluginId,
     baseLocale |-> options.baseLocale,
     currentLocale |-> IF options.currentLocale # "" THEN options.currentLocale
                       ELSE options.baseLocale,
     baseDictionary |-> options.baseDictionary,
     hasCallback |-> options.onValidationError,
     dictionaries |-> [l \in {options.baseLocale} |-> options.baseDictionary]]

RECURSIVE WordRunEnd(_, _)
\* index of the last atom of the longest run of \w atoms starting at s (s - 1: none)
WordRunEnd(text, s) ==
    IF s <= Len(text) /\ IsWord(text[s]) THEN WordRunEnd(text, s + 1) ELSE s - 1

(* One attempt of /\{\{?(\w+)\}?\}/ at position i.  The optional second    *)
(* "{" is taken when it is there (without it \w+ would have to start on a  *)
(* brace); \w+ must run up to a "}", and a second "}" is taken if present. *)
MatchAt(text, i) ==
    LET s == IF i + 1 <= Len(text) /\ text[i + 1] = "{" THEN i + 2 ELSE i + 1
        e == WordRunEnd(text, s)
    IN  [ok |-> /\ text[i] = "{"
                /\ e >= s
                /\ e + 1 <= Len(text)
                /\ text[e + 1] = "}",
         s |-> s,
         e |-> e,
         end |-> IF e + 2 <= Len(text) /\ text[e + 2] = "}" THEN e + 2 ELSE e + 1]

RECURSIVE ReplaceFrom(_, _, _)
\* text.replace(regex, (match, key) => ...) from position i on
ReplaceFrom(text, fields, i) ==
    IF i > Len(text) THEN <<>>
    ELSE LET m == MatchAt(text, i)
         IN  IF m.ok
             THEN LET value == GetProp(fields, SubSeq(text, m.s, m.e))
                  IN  (IF value # Undefined THEN ToStr(value)
                       ELSE SubSeq(text, i, m.end))
                      \o ReplaceFrom(text, fields, m.end + 1)
             ELSE <<text[i]>> \o ReplaceFrom(text, fields, i + 1)

\* I18nTranslator.interpolate(text, params)
interpolate(text, fields) == ReplaceFrom(text, fields, 1)

\* the lookupKeys array of t(): `${k}_${context}` first when context is truthy
LookupKeys(key, params) ==
    LET context == IF params.given THEN GetProp(params.fields, ContextName)
                   ELSE Undefined
    IN  IF ~Falsy(context) THEN <<key \o <<"_">> \o ToStr(context), key>>
        ELSE <<key>>

RECURSIVE FindTemplate_LocaleFirst(_, _, _)
\* mutant of FindTemplate: every lookup key is tried in the current locale's
\* dictionary before any is tried in the base dictionary
FindTemplate_LocaleFirst(tr, keys, i) ==
    LET hasCurrent == tr.currentLocale \in DOMAIN tr.dictionaries
        inCurrent == {j \in 1..Len(keys) :
                         hasCurrent /\ HasString(tr.dictionaries[tr.currentLocale],
                                                 keys[j])}
        inBase == {j \in 1..Len(keys) : HasString(tr.baseDictionary, keys[j])}
        least(S) == CHOOSE j \in S : \A h \in S : j <= h
    IN  IF inCurrent # {}
        THEN [found |-> TRUE,
              template |-> tr.dictionaries[tr.currentLocale]
                               .entries[keys[least(inCurrent)]].s]
        ELSE IF inBase # {}
        THEN [found |-> TRUE,
              template |-> tr.baseDictionary.entries[keys[least(inBase)]].s]
        ELSE [found |-> FALSE, template |-> <<>>]

RECURSIVE FindTemplate(_, _, _)
\* the for loop of t(): per lookup key, the current locale's dictionary, then the base
FindTemplate(tr, keys, i) ==
    IF i > Len(keys) THEN [found |-> FALSE, template |-> <<>>]
    ELSE IF /\ tr.currentLocale \in DOMAIN tr.dictionaries
            /\ HasString(tr.dictionaries[tr.currentLocale], keys[i])
         THEN [found |-> TRUE,
               template |-> tr.dictionaries[tr.currentLocale].entries[keys[i]].s]
    ELSE IF HasString(tr.baseDictionary, keys[i])
         THEN [found |-> TRUE, template |-> tr.baseDictionary.entries[keys[i]].s]
    ELSE FindTemplate(tr, keys, i + 1)

\* I18nTranslator.t(key, params)
t(tr, key, params) ==
    LET hit == FindTemplate(tr, LookupKeys(key, params), 1)
    IN  IF ~hit.found THEN key
        ELSE IF params.given /\ DOMAIN WithoutContext(params.fields) # {}
             THEN interpolate(hit.template, WithoutContext(params.fields))
        ELSE hit.template

(* A ValidationResult, or a thrown exception.  errors and warnings are the *)
(* sets of the `key` fields of the reported entries (an empty set is the   *)
(* `undefined` list of the code).                                          *)
Result(valid, errors, warnings) ==
    [threw |-> FALSE, valid |-> valid, errors |-> errors, warnings |-> warnings]
Thrown == [threw |-> TRUE, valid |-> FALSE, errors |-> {}, warnings |-> {}]

\* mutant of validateDictionary: the type of a value is checked only for keys
\* the base dictionary knows (`else if` instead of `if`)
validateDictionary_UnknownUntyped(tr, dict) ==
    IF dict.t # "object"
    THEN Result(FALSE, {<<"$root">>}, {})
    ELSE IF dict.meta.t = "null"
    THEN Thrown
    ELSE
    LET metaErrors == IF dict.meta.t \in {"string", "number"} THEN {<<"$meta">>}
                      ELSE {}
        metaWarnings ==
            IF dict.meta.t # "object" THEN {}
            ELSE (IF Falsy(dict.meta.locale) \/ TypeOf(dict.meta.locale) # "string"
                  THEN {<<"$meta.locale">>} ELSE {})
                 \cup
                 (IF Falsy(dict.meta.dictVersion)
                     \/ TypeOf(dict.meta.dictVersion) # "string"
                  THEN {<<"$meta.dictVersion">>} ELSE {})
        baseKeys == DOMAIN tr.baseDictionary.entries
        dictKeys == DOMAIN dict.entries
        unknown == dictKeys \ baseKeys
        nonString == {k \in dictKeys \cap baseKeys :
                         TypeOf(dict.entries[k]) # "string"}
        missing == baseKeys \ dictKeys
        errors == metaErrors \cup nonString
    IN  Result(errors = {}, errors, metaWarnings \cup unknown \cup missing)

\* I18nTranslator.validateDictionary(dict)
validateDictionary(tr, dict) ==
    IF dict.t # "object"
    THEN Result(FALSE, {<<"$root">>}, {})
    ELSE IF dict.meta.t = "null"
    THEN Thrown   \* typeof null is 'object': meta.locale reads a property of null
    ELSE
    LET metaErrors == IF dict.meta.t \in {"string", "number"} THEN {<<"$meta">>}
                      ELSE {}
        metaWarnings ==
            IF dict.meta.t # "object" THEN {}
            ELSE (IF Falsy(dict.meta.locale) \/ TypeOf(dict.meta.locale) # "string"
                  THEN {<<"$meta.locale">>} ELSE {})
                 \cup
                 (IF Falsy(dict.meta.dictVersion)
                     \/ TypeOf(dict.meta.dictVersion) # "string"
                  THEN {<<"$meta.dictVersion">>} ELSE {})
        baseKeys == DOMAIN tr.baseDictionary.entries
        dictKeys == DOMAIN dict.entries
        unknown == dictKeys \ baseKeys
        nonString == {k \in dictKeys : TypeOf(dict.entries[k]) # "string"}
        missing == baseKeys \ dictKeys
        errors == metaErrors \cup nonString
    IN  Result(errors = {}, errors, metaWarnings \cup unknown \cup missing)

\* mutant of loadDictionary: the dictionary is stored before the validation
\* result is looked at
loadDictionary_StoreFirst(tr, locale, dict) ==
    LET result == validateDictionary(tr, dict)
        stored == [tr EXCEPT !.dictionaries =
                      [l \in (DOMAIN tr.dictionaries) \cup {locale} |->
                          IF l = locale THEN dict ELSE tr.dictionaries[l]]]
    IN  IF result.threw THEN [tr |-> tr, result |-> result, cb |-> <<>>]
        ELSE IF ~result.valid
        THEN [tr |-> stored, result |-> result,
              cb |-> IF tr.hasCallback THEN <<result>> ELSE <<>>]
        ELSE [tr |-> stored, result |-> result, cb |-> <<>>]

\* mutant of loadDictionary: a successful load also switches to the loaded locale
loadDictionary_SwitchLocale(tr, locale, dict) ==
    LET result == validateDictionary(tr, dict)
    IN  IF result.threw THEN [tr |-> tr, result |-> result, cb |-> <<>>]
        ELSE IF ~result.valid
        THEN [tr |-> tr, result |-> result,
              cb |-> IF tr.hasCallback THEN <<result>> ELSE <<>>]
        ELSE [tr |-> [tr EXCEPT !.dictionaries =
                         [l \in (DOMAIN tr.dictionaries) \cup {locale} |->
                             IF l = locale THEN dict ELSE tr.dictionaries[l]],
                                !.currentLocale = locale],
              result |-> result,
              cb |-> <<>>]

\* I18nTranslator.loadDictionary(locale, dict): the translator afterwards, the
\* value returned (or the exception) and the arguments given to onValidationError
loadDictionary(tr, locale, dict) ==
    LET result == validateDictionary(tr, dict)
    IN  IF result.threw THEN [tr |-> tr, result |-> result, cb |-> <<>>]
        ELSE IF ~result.valid
        THEN [tr |-> tr, result |-> result,
              cb |-> IF tr.hasCallback THEN <<result>> ELSE <<>>]
        ELSE [tr |-> [tr EXCEPT !.dictionaries =
                         [l \in (DOMAIN tr.dictionaries) \cup {locale} |->
                             IF l = locale THEN dict ELSE tr.dictionaries[l]]],
              result |-> result,
              cb |-> <<>>]

\* mutant of unloadDictionary: the base-locale check is missing
unloadDictionary_NoBaseCheck(tr, locale) ==
    IF locale \in DOMAIN tr.dictionaries
    THEN [tr EXCEPT !.dictionaries =
                        [l \in (DOMAIN tr.dictionaries) \ {locale} |->
                            tr.dictionaries[l]],
                    !.currentLocale = IF tr.currentLocale = locale
                                      THEN tr.baseLocale
                                      ELSE tr.currentLocale]
    ELSE tr

\* mutant of unloadDictionary: currentLocale is left on the removed locale
unloadDictionary_KeepLocale(tr, locale) ==
    IF locale = tr.baseLocale THEN tr
    ELSE IF locale \in DOMAIN tr.dictionaries
    THEN [tr EXCEPT !.dictionaries =
                        [l \in (DOMAIN tr.dictionaries) \ {locale} |->
                            tr.dictionaries[l]]]
    ELSE tr

\* I18nTranslator.unloadDictionary(locale)
unloadDictionary(tr, locale) ==
    IF locale = tr.baseLocale THEN tr
    ELSE IF locale \in DOMAIN tr.dictionaries
    THEN [tr EXCEPT !.dictionaries =
                        [l \in (DOMAIN tr.dictionaries) \ {locale} |->
                            tr.dictionaries[l]],
                    !.currentLocale = IF tr.currentLocale = locale
                                      THEN tr.baseLocale
                                      ELSE tr.currentLocale]
    ELSE tr

\* what I18nTranslator.unloadDictionary(locale) writes to the console
unloadLog(tr, locale) ==
    IF locale = tr.baseLocale THEN <<"Cannot unload base dictionary">>
    ELSE IF locale \in DOMAIN tr.dictionaries
    THEN <<"Unloaded dictionary">>
         \o (IF tr.currentLocale = locale THEN <<"Locale reset to base">> ELSE <<>>)
    ELSE <<>>

\* I18nTranslator.setLocale(locale)
setLocale(tr, locale) == [tr EXCEPT !.currentLocale = locale]

\* I18nTranslator.getLoadedLocales(), as a set
getLoadedLocales(tr) == DOMAIN tr.dictionaries

\* I18nTranslator.getDictionary(locale); present = FALSE is `undefined`
getDictionary(tr, locale) ==
    IF locale = tr.baseLocale THEN [present |-> TRUE, dict |-> tr.baseDictionary]
    ELSE IF locale \in DOMAIN tr.dictionaries
    THEN [present |-> TRUE, dict |-> tr.dictionaries[locale]]
    ELSE [present |-> FALSE, dict |-> NonObject("undefined")]

-----------------------------------------------------------------------------
(* I18nPlusManager.  An operation returns the registry afterwards and the  *)
(* emit() calls it makes (`events`); the step that performs the operation  *)
(* hands them to emit, which runs the callbacks attached to the event.     *)

Event(name, id, locale) == [name |-> name, id |-> id, locale |-> locale]

EventNames == {"plugin-registered", "dictionary-loaded", "dictionary-unloaded",
               "locale-changed"}

\* the callbacks attached in this model: "watch" looks at the registry and
\* returns, "boom" looks at the registry and throws
Callbacks == {"watch", "boom"}
Throws(callback) == callback = "boom"

\* eventListeners after construction
NoListeners == [name \in EventNames |-> <<>>]

\* I18nPlusManager.on(event, callback): Set.add keeps an earlier insertion
on(ls, name, callback) ==
    IF \E i \in DOMAIN ls[name] : ls[name][i] = callback
    THEN ls
    ELSE [ls EXCEPT ![name] = Append(@, callback)]

\* I18nPlusManager.off(event, callback)
off(ls, name, callback) ==
    [ls EXCEPT ![name] = SelectSeq(@, LAMBDA c : c # callback)]

\* what a callback sees when it queries the registry: for every registered
\* id the translator's getLocale() and getLoadedLocales()
Observe(trs) ==
    [id \in DOMAIN trs |-> [currentLocale |-> trs[id].currentLocale,
                            locales |-> DOMAIN trs[id].dictionaries]]

Invocation(callback, event, seen) ==
    [callback |-> callback, event |-> event, seen |-> seen]

RECURSIVE emit_UntilThrow(_, _, _, _)
\* the loop of emit without its try / catch: it ends at the first callback
\* that throws
emit_UntilThrow(callbacks, i, event, seen) ==
    IF i > Len(callbacks) THEN <<>>
    ELSE <<Invocation(callbacks[i], event, seen)>>
         \o (IF Throws(callbacks[i]) THEN <<>>
             ELSE emit_UntilThrow(callbacks, i + 1, event, seen))

\* mutant of emit: no try / catch around the callback
emit_NoCatch(ls, events, seen) ==
    IF events = <<>> THEN [invoked |-> <<>>, threw |-> FALSE]
    ELSE LET callbacks == ls[events[1].name]
         IN  [invoked |-> emit_UntilThrow(callbacks, 1, events[1], seen),
              threw |-> \E i \in DOMAIN callbacks : Throws(callbacks[i])]

\* I18nPlusManager.emit(event, ...args) for the emit call of an operation
\* (`events` holds it, or is empty when the operation emits nothing): every
\* callback of the event is invoked in insertion order, an exception is
\* logged and the loop goes on.  `seen` is the registry the callbacks find.
emit(ls, events, seen) ==
    IF events = <<>> THEN [invoked |-> <<>>, threw |-> FALSE]
    ELSE LET callbacks == ls[events[1].name]
         IN  [invoked |-> [i \in DOMAIN callbacks |->
                              Invocation(callbacks[i], events[1], seen)],
              threw |-> FALSE]

\* I18nPlusManager.getRegisteredPlugins(), as a set
getRegisteredPlugins(trs) == DOMAIN trs

\* register leaves a translator that is already registered in place
register_KeepEarlier(trs, id, translator) ==
    [translators |-> [i \in (DOMAIN trs) \cup {id} |->
                         IF i \in DOMAIN trs THEN trs[i] ELSE translator],
     events |-> <<Event("plugin-registered", id, "")>>]

\* I18nPlusManager.register(pluginId, translator)
register(trs, id, translator) ==
    [translators |-> [i \in (DOMAIN trs) \cup {id} |->
                         IF i = id THEN translator ELSE trs[i]],
     events |-> <<Event("plugin-registered", id, "")>>]

\* I18nPlusManager.unregister(pluginId)
unregister(trs, id) == [i \in (DOMAIN trs) \ {id} |-> trs[i]]

\* the key order of the Map after set(id, ...): a new key goes last, a key
\* already present keeps its place
KeysAfterSet(ord, id) ==
    IF \E i \in DOMAIN ord : ord[i] = id THEN ord ELSE Append(ord, id)

\* the key order of the Map after delete(id)
KeysAfterDelete(ord, id) == SelectSeq(ord, LAMBDA i : i # id)

\* mutant of managerLoadDictionary: dictionary-loaded is emitted whatever the
\* result says
managerLoadDictionary_EmitAlways(trs, id, locale, dict) ==
    IF id \notin DOMAIN trs
    THEN [translators |-> trs, result |-> Result(FALSE, {<<"$plugin">>}, {}),
          cb |-> <<>>, events |-> <<>>]
    ELSE LET r == loadDictionary(trs[id], locale, dict)
         IN  [translators |-> [trs EXCEPT ![id] = r.tr],
              result |-> r.result,
              cb |-> r.cb,
              events |-> IF ~r.result.threw
                         THEN <<Event("dictionary-loaded", id, locale)>>
                         ELSE <<>>]

\* I18nPlusManager.loadDictionary(pluginId, locale, dict)
managerLoadDictionary(trs, id, locale, dict) ==
    IF id \notin DOMAIN trs
    THEN [translators |-> trs, result |-> Result(FALSE, {<<"$plugin">>}, {}),
          cb |-> <<>>, events |-> <<>>]
    ELSE LET r == loadDictionary(trs[id], locale, dict)
         IN  [translators |-> [trs EXCEPT ![id] = r.tr],
              result |-> r.result,
              cb |-> r.cb,
              events |-> IF ~r.result.threw /\ r.result.valid
                         THEN <<Event("dictionary-loaded", id, locale)>>
                         ELSE <<>>]

\* I18nPlusManager.unloadDictionary(pluginId, locale)
managerUnloadDictionary(trs, id, locale) ==
    IF id \notin DOMAIN trs THEN [translators |-> trs, events |-> <<>>, log |-> <<>>]
    ELSE [translators |-> [trs EXCEPT ![id] = unloadDictionary(trs[id], locale)],
          events |-> <<Event("dictionary-unloaded", id, locale)>>,
          log |-> unloadLog(trs[id], locale)]

RECURSIVE SetLocaleOfFirst(_, _, _, _)
\* the first n rounds of `for (const translator of this.translators.values())
\* translator.setLocale(locale)`, the Map being iterated in insertion order
SetLocaleOfFirst(trs, ord, n, locale) ==
    IF n = 0 THEN trs
    ELSE [SetLocaleOfFirst(trs, ord, n - 1, locale)
             EXCEPT ![ord[n]] = setLocale(@, locale)]

\* mutant of setGlobalLocale: locale-changed is emitted inside the loop, after
\* the first translator has been set
setGlobalLocale_EmitInLoop(trs, ord, locale) ==
    [translators |-> SetLocaleOfFirst(trs, ord, Len(ord), locale),
     events |-> <<Event("locale-changed", "", locale)>>,
     seen |-> Observe(SetLocaleOfFirst(trs, ord, IF Len(ord) > 0 THEN 1 ELSE 0,
                                       locale))]

\* I18nPlusManager.setGlobalLocale(locale); `seen` is the registry at the
\* time of the emit call
setGlobalLocale(trs, ord, locale) ==
    [translators |-> SetLocaleOfFirst(trs, ord, Len(ord), locale),
     events |-> <<Event("locale-changed", "", locale)>>,
     seen |-> Observe(SetLocaleOfFirst(trs, ord, Len(ord), locale))]

-----------------------------------------------------------------------------
(* The outcome of a call, as its caller sees it. *)

NoResult == Result(FALSE, {}, {})
NoDict == NonObject("undefined")

Outcome(op, id, locale, dict, key) ==
    [op |-> op, id |-> id, locale |-> locale, dict |-> dict, key |-> key,
     returned |-> "void", result |-> NoResult, text |-> <<>>,
     cb |-> <<>>, events |-> <<>>, invoked |-> <<>>, log |-> <<>>,
     doc |-> NoDict, now |-> 0, io |-> "ok",
     listed |-> {}, orphans |-> {}, count |-> 0,
     force |-> FALSE, promise |-> 0, requested |-> FALSE, value |-> <<>>,
        read |-> {}]

\* the outcome of a call that ends with an emit call
Emitted(o, events, e) ==
    [o EXCEPT !.events = events, !.invoked = e.invoked,
              !.returned = IF e.threw THEN "throw" ELSE @]

\* the outcome of a call that returns a ValidationResult or throws
Validated(o, result, cb, events) ==
    [o EXCEPT !.returned = IF result.threw THEN "throw" ELSE "result",
              !.result = result, !.cb = cb, !.events = events]

\* a CloudManager after construction: no catalog, no fetch under way.  The
\* requests in flight (pending) and the number of requests issued belong to
\* the network, not to the object
NoCloud ==
    [remoteManifest |-> <<>>, fetchPromise |-> 0, hasLoaded |-> FALSE,
     pending |-> {}, issued |-> 0]

\* the settings of the core before loadData has answered
DEFAULT_SETTINGS == [debugMode |-> FALSE, currentLocale |-> ""]

\* the global object before any plugin has started: no i18nPlus property,
\* no manager singleton, no listener for the ready broadcast, no adapter
NoWindow ==
    [i18nPlus |-> FALSE, instance |-> FALSE, ready |-> <<>>, adapters |-> <<>>]

-----------------------------------------------------------------------------
(* Inputs of the registry state machine *)

K == <<"k">>
KC == <<"k", "_", "c">>
U == <<"u">>

PluginIds == {"demo"}
Locales == {"en", "fr", "de"}

BaseHello == Dict(NoMeta, [key \in {K} |-> Str(<<"Hello">>)])

\* what a plugin passes to new I18nTranslator(...)
Options ==
    {[pluginId |-> id, baseLocale |-> "en", currentLocale |-> "",
      baseDictionary |-> BaseHello, onValidationError |-> cb] :
        id \in PluginIds, cb \in BOOLEAN}

\* what callers hand to loadDictionary
Payloads ==
    {Dict(MetaObj(Str(<<"fr">>), Str(<<"1">>)), [key \in {K} |-> Str(<<"Bonjour">>)]),
     \* DictionaryManagerModal.createNewDictionary: the base keys with "" values
     Dict(MetaObj(Str(<<"fr">>), Str(<<"1.0.0">>)), [key \in {K} |-> Str(<<>>)]),
     Dict(NoMeta, [key \in {U} |-> Str(<<"x">>)]),
     Dict(NoMeta, [key \in {K} |-> Num(42)]),
     Dict(MetaNull, [key \in {K} |-> Str(<<"Bonjour">>)]),
     NonObject("null")}

-----------------------------------------------------------------------------
(* The registry state machine *)

Init ==
    /\ translators = <<>>
    /\ order = <<>>
    /\ listeners = NoListeners
    /\ files = <<>>
    /\ last = Outcome("init", "", "", NoDict, <<>>)
    /\ cloud = NoCloud
    /\ window = NoWindow
    /\ settings = DEFAULT_SETTINGS
    /\ pc = "idle"
    /\ input = <<>>

\* a plugin constructs its translator and registers it
DoRegister(options) ==
    LET r == register(translators, options.pluginId, constructor(options))
        e == emit(listeners, r.events, Observe(r.translators))
    IN  /\ translators' = r.translators
        /\ order' = KeysAfterSet(order, options.pluginId)
        /\ last' = [Emitted(Outcome("register", options.pluginId, "", NoDict, <<>>),
                            r.events, e)
                        EXCEPT !.log = IF options.pluginId \in DOMAIN translators
                                       THEN <<"already registered, replacing">>
                                       ELSE <<>>]

DoUnregister(id) ==
    /\ translators' = unregister(translators, id)
    /\ order' = KeysAfterDelete(order, id)
    /\ last' = Outcome("unregister", id, "", NoDict, <<>>)

DoManagerLoadDictionary(id, locale, dict) ==
    LET r == managerLoadDictionary(translators, id, locale, dict)
        e == emit(listeners, r.events, Observe(r.translators))
    IN  /\ translators' = r.translators
        /\ order' = order
        /\ last' = Emitted(Validated(Outcome("manager.loadDictionary", id, locale,
                                             dict, <<>>),
                                     r.result, r.cb, r.events),
                           r.events, e)

DoManagerUnloadDictionary(id, locale) ==
    LET r == managerUnloadDictionary(translators, id, locale)
        e == emit(listeners, r.events, Observe(r.translators))
    IN  /\ translators' = r.translators
        /\ order' = order
        /\ last' = [Emitted(Outcome("manager.unloadDictionary", id, locale, NoDict,
                                    <<>>),
                            r.events, e)
                        EXCEPT !.log = r.log]

DoSetGlobalLocale(locale) ==
    LET r == setGlobalLocale(translators, order, locale)
        e == emit(listeners, r.events, r.seen)
    IN  /\ translators' = r.translators
        /\ order' = order
        /\ last' = Emitted(Outcome("setGlobalLocale", "", locale, NoDict, <<>>),
                           r.events, e)

\* the plugin that owns a registered translator calls it directly
DoLoadDictionary(id, locale, dict) ==
    /\ id \in DOMAIN translators
    /\ LET r == loadDictionary(translators[id], locale, dict)
       IN  /\ translators' = [translators EXCEPT ![id] = r.tr]
           /\ order' = order
           /\ last' = Validated(Outcome("loadDictionary", id, locale, dict, <<>>),
                                r.result, r.cb, <<>>)

DoUnloadDictionary(id, locale) ==
    /\ id \in DOMAIN translators
    /\ translators' = [translators EXCEPT
                          ![id] = unloadDictionary(translators[id], locale)]
    /\ order' = order
    /\ last' = [Outcome("unloadDictionary", id, locale, NoDict, <<>>)
                    EXCEPT !.log = unloadLog(translators[id], locale)]

DoSetLocale(id, locale) ==
    /\ id \in DOMAIN translators
    /\ translators' = [translators EXCEPT ![id] = setLocale(translators[id], locale)]
    /\ order' = order
    /\ last' = Outcome("setLocale", id, locale, NoDict, <<>>)

DoTranslate(id, key) ==
    /\ id \in DOMAIN translators
    /\ last' = [Outcome("t", id, "", NoDict, key) EXCEPT
                    !.returned = "text",
                    !.text = t(translators[id], key, NoParams)]
    /\ UNCHANGED <<translators, order>>

\* the calls as steps of the registry state machine: the scripted caller and
\* the pure-function inputs stay where they are
Register(options) ==
    DoRegister(options)
        /\ UNCHANGED <<listeners, files, pc, input, cloud, window, settings>>
Unregister(id) ==
    DoUnregister(id)
        /\ UNCHANGED <<listeners, files, pc, input, cloud, window, settings>>
ManagerLoadDictionary(id, locale, dict) ==
    DoManagerLoadDictionary(id, locale, dict)
        /\ UNCHANGED <<listeners, files, pc, input, cloud, window, settings>>
ManagerUnloadDictionary(id, locale) ==
    DoManagerUnloadDictionary(id, locale)
        /\ UNCHANGED <<listeners, files, pc, input, cloud, window, settings>>
SetGlobalLocale(locale) ==
    DoSetGlobalLocale(locale)
        /\ UNCHANGED <<listeners, files, pc, input, cloud, window, settings>>
LoadDictionary(id, locale, dict) ==
    DoLoadDictionary(id, locale, dict)
        /\ UNCHANGED <<listeners, files, pc, input, cloud, window, settings>>
UnloadDictionary(id, locale) ==
    DoUnloadDictionary(id, locale)
        /\ UNCHANGED <<listeners, files, pc, input, cloud, window, settings>>
SetLocale(id, locale) ==
    DoSetLocale(id, locale)
        /\ UNCHANGED <<listeners, files, pc, input, cloud, window, settings>>
Translate(id, key) ==
    DoTranslate(id, key)
        /\ UNCHANGED <<listeners, files, pc, input, cloud, window, settings>>

Next ==
    \/ \E options \in Options : Register(options)
    \/ \E id \in PluginIds : Unregister(id)
    \/ \E id \in PluginIds, locale \in Locales, dict \in Payloads :
           ManagerLoadDictionary(id, locale, dict)
    \/ \E id \in PluginIds, locale \in Locales : ManagerUnloadDictionary(id, locale)
    \/ \E locale \in Locales : SetGlobalLocale(locale)
    \/ \E id \in PluginIds, locale \in Locales, dict \in Payloads :
           LoadDictionary(id, locale, dict)
    \/ \E id \in PluginIds, locale \in Locales : UnloadDictionary(id, locale)
    \/ \E id \in PluginIds, locale \in Locales : SetLocale(id, locale)
    \/ \E id \in PluginIds, key \in {K, U} : Translate(id, key)

Spec == Init /\ [][Next]_vars

-----------------------------------------------------------------------------
(* The registry with its event bus: two plugins, callbacks attached and    *)
(* detached at any time, at most MaxListeners attached at once.            *)

MaxListeners == 2

BusPluginIds == {"demo", "other"}
BusLocales == {"en", "fr"}

BusOptions ==
    {[pluginId |-> id, baseLocale |-> "en", currentLocale |-> "",
      baseDictionary |-> BaseHello, onValidationError |-> FALSE] :
        id \in BusPluginIds}

BusOverlayLocales == {"fr"}

BusPayloads ==
    {Dict(MetaObj(Str(<<"fr">>), Str(<<"1">>)), [key \in {K} |-> Str(<<"Bonjour">>)]),
     Dict(NoMeta, [key \in {K} |-> Num(42)])}

RECURSIVE Attached(_, _)
\* the number of callbacks attached to the events of `names`
Attached(ls, names) ==
    IF names = {} THEN 0
    ELSE LET name == CHOOSE n \in names : TRUE
         IN  Len(ls[name]) + Attached(ls, names \ {name})

On(name, callback) ==
    /\ Attached(listeners, EventNames) < MaxListeners
    /\ listeners' = on(listeners, name, callback)
    /\ last' = Outcome("on", "", "", NoDict, <<>>)
    /\ UNCHANGED <<translators, order, files, pc, input, cloud, window, settings>>

Off(name, callback) ==
    /\ listeners' = off(listeners, name, callback)
    /\ last' = Outcome("off", "", "", NoDict, <<>>)
    /\ UNCHANGED <<translators, order, files, pc, input, cloud, window, settings>>

NextBus ==
    \/ \E options \in BusOptions : Register(options)
    \/ \E id \in BusPluginIds : Unregister(id)
    \/ \E id \in BusPluginIds, locale \in BusOverlayLocales, dict \in BusPayloads :
           ManagerLoadDictionary(id, locale, dict)
    \/ \E id \in BusPluginIds, locale \in BusOverlayLocales :
           ManagerUnloadDictionary(id, locale)
    \/ \E locale \in BusLocales : SetGlobalLocale(locale)
    \/ \E name \in EventNames, callback \in Callbacks : On(name, callback)
    \/ \E name \in EventNames, callback \in Callbacks : Off(name, callback)

SpecBus == Init /\ [][NextBus]_vars

\* the callbacks invoked by the call, in the order of their invocation
InvokedCallbacks(o) == [i \in DOMAIN o.invoked |-> o.invoked[i].callback]

\* C11: Registry.loadDictionary(id, locale, dict) returns the named
\* translator's ValidationResult and emits dictionary-loaded exactly when
\* that result is valid; for an id that is not registered it returns
\* valid:false, emits no event and changes no translator.
C11_RegistryLoad ==
    [][last'.op = "manager.loadDictionary" =>
        IF last'.id \in DOMAIN translators
        THEN LET own == loadDictionary(translators[last'.id], last'.locale, last'.dict)
                 loaded == <<Event("dictionary-loaded", last'.id, last'.locale)>>
             IN  /\ last'.result = own.result
                 /\ last'.returned = IF own.result.threw THEN "throw" ELSE "result"
                 /\ translators' = [translators EXCEPT ![last'.id] = own.tr]
                 /\ last'.events = IF ~own.result.threw /\ own.result.valid
                                   THEN loaded ELSE <<>>
                 /\ InvokedCallbacks(last') =
                        IF ~own.result.threw /\ own.result.valid
                        THEN listeners["dictionary-loaded"] ELSE <<>>
        ELSE /\ last'.returned = "result"
             /\ ~last'.result.valid
             /\ last'.result.errors = {<<"$plugin">>}
             /\ last'.events = <<>>
             /\ last'.invoked = <<>>
             /\ translators' = translators]_vars

C11_Witness ==
    /\ last.op = "manager.loadDictionary"
    /\ last.id \notin DOMAIN translators
    /\ DOMAIN translators # {}
    /\ listeners["dictionary-loaded"] # <<>>
    /\ last.dict \in {d \in BusPayloads : d.meta.t = "object"}
    /\ ~last.result.valid
    /\ last.invoked = <<>>

\* C12: setGlobalLocale(locale) sets currentLocale of every registered
\* translator before any locale-changed listener runs: each listener, and
\* whoever looks at the registry after the call, finds the broadcast locale
\* in all registered translators.
C12_BroadcastNotPartial ==
    last.op = "setGlobalLocale" =>
        /\ \A id \in DOMAIN translators : translators[id].currentLocale = last.locale
        /\ InvokedCallbacks(last) = listeners["locale-changed"]
        /\ \A i \in DOMAIN last.invoked :
               /\ last.invoked[i].event = Event("locale-changed", "", last.locale)
               /\ DOMAIN last.invoked[i].seen = DOMAIN translators
               /\ \A id \in DOMAIN translators :
                      last.invoked[i].seen[id].currentLocale = last.locale

C12_Witness ==
    /\ last.op = "setGlobalLocale"
    /\ last.locale = "fr"
    /\ Len(order) = 2
    /\ Len(last.invoked) = 2
    /\ \A id \in DOMAIN translators : "fr" \notin DOMAIN translators[id].dictionaries

\* what the call of `o` must have left in the registry
Applied(o, trs) ==
    CASE o.op = "register" -> o.id \in DOMAIN trs
      [] o.op = "manager.loadDictionary" ->
             /\ o.id \in DOMAIN trs
             /\ o.locale \in DOMAIN trs[o.id].dictionaries
             /\ trs[o.id].dictionaries[o.locale] = o.dict
      [] o.op = "manager.unloadDictionary" ->
             /\ o.id \in DOMAIN trs
             /\ o.locale \in DOMAIN trs[o.id].dictionaries
                    => o.locale = trs[o.id].baseLocale
      [] o.op = "setGlobalLocale" ->
             \A id \in DOMAIN trs : trs[id].currentLocale = o.locale
      [] OTHER -> FALSE

\* C13: when an event is emitted, a listener that throws does not keep the
\* remaining listeners of the event from being invoked, the exception does
\* not reach the caller of register / loadDictionary / unloadDictionary /
\* setGlobalLocale, and the caller's state change stays applied.
C13_EmitIsolated ==
    last.events # <<>> =>
        /\ InvokedCallbacks(last) = listeners[last.events[1].name]
        /\ last.returned # "throw"
        /\ Applied(last, translators)

C13_Witness ==
    /\ last.op = "manager.loadDictionary"
    /\ last.events # <<>>
    /\ InvokedCallbacks(last) = <<"boom", "watch">>
    /\ last.returned = "result"
    /\ translators[last.id].dictionaries[last.locale] = last.dict

-----------------------------------------------------------------------------
(* t(key, params) as a pure function of the translator's state.  The       *)
(* translators it is applied to are built the way the program builds them: *)
(* constructed, then at most one accepted loadDictionary, then setLocale.  *)

\* every function from a subset of `keys` to a value of `values`
Entries(keys, values) == UNION {[ks -> values] : ks \in SUBSET keys}

TranslatorOf(base, cb) ==
    constructor([pluginId |-> "demo", baseLocale |-> "en", currentLocale |-> "",
                 baseDictionary |-> base, onValidationError |-> cb])

LookupBases ==
    {Dict(NoMeta, e) :
        e \in Entries({K, KC}, {Str(<<"base">>), Str(<<"base'">>), Num(7)})}

LookupOverlays ==
    {Dict(NoMeta, e) : e \in Entries({K, KC}, {Str(<<"over">>), Str(<<"over'">>)})}

LookupTranslators ==
    LET fresh == {TranslatorOf(base, FALSE) : base \in LookupBases}
        loaded == {loadDictionary(tr, locale, dict).tr :
                      tr \in fresh, locale \in {"en", "fr"}, dict \in LookupOverlays}
    IN  {setLocale(tr, locale) : tr \in fresh \cup loaded, locale \in Locales}

LookupParams ==
    {NoParams,
    Params(<<>>),
    Params([name \in {ContextName} |-> Str(<<"c">>)]),
    Params([name \in {ContextName} |-> Str(<<>>)]),
    Params([name \in {<<"n">>} |-> Num(1)]),
    Params([name \in {ContextName, <<"n">>} |->
               IF name = ContextName THEN Str(<<"c">>) ELSE Num(1)])}

InitLookup ==
    /\ translators = <<>>
    /\ order = <<>>
    /\ listeners = NoListeners
    /\ files = <<>>
    /\ last = Outcome("init", "", "", NoDict, <<>>)
    /\ cloud = NoCloud
    /\ window = NoWindow
    /\ settings = DEFAULT_SETTINGS
    /\ pc = "call"
    /\ input \in [tr : LookupTranslators, key : {K, KC, U}, params : LookupParams]

\* the caller applies t to its arguments
ApplyT ==
    /\ pc = "call"
    /\ last' = [Outcome("t", input.tr.pluginId, "", NoDict, input.key) EXCEPT
                    !.returned = "text",
                    !.text = t(input.tr, input.key, input.params)]
    /\ pc' = "done"
    /\ UNCHANGED <<translators, order, listeners, files, input, cloud, window, settings>>

SpecLookup == InitLookup /\ [][ApplyT]_vars

\* the context a call supplies (a falsy context, like "", counts as none)
HasContext(params) ==
    /\ params.given
    /\ ContextName \in DOMAIN params.fields
    /\ ~Falsy(params.fields[ContextName])

\* the first string value among the probes, in the order given; the key if none
FirstString(probes, key) ==
    LET hits == {i \in 1..Len(probes) :
                    probes[i].loaded /\ HasString(probes[i].dict, probes[i].key)}
    IN  IF hits = {} THEN key
        ELSE LET i == CHOOSE j \in hits : \A h \in hits : j <= h
             IN  probes[i].dict.entries[probes[i].key].s

\* C1: the template t(key, params) uses is the first string value found when
\* probing (key_context, current-locale overlay), (key_context, base),
\* (key, current-locale overlay), (key, base); the raw key if no probe hits.
C1_LookupOrder ==
    pc = "done" =>
        LET tr == input.tr
            isLoaded == tr.currentLocale \in DOMAIN tr.dictionaries
            overlay == IF isLoaded THEN tr.dictionaries[tr.currentLocale] ELSE NoDict
            plain == <<[loaded |-> isLoaded, dict |-> overlay, key |-> input.key],
                       [loaded |-> TRUE, dict |-> tr.baseDictionary, key |-> input.key]>>
            ctxKey == input.key \o <<"_">> \o input.params.fields[ContextName].s
            probes == IF HasContext(input.params)
                      THEN <<[loaded |-> isLoaded, dict |-> overlay, key |-> ctxKey],
                             [loaded |-> TRUE, dict |-> tr.baseDictionary,
                              key |-> ctxKey]>> \o plain
                      ELSE plain
        IN  last.text = FirstString(probes, input.key)

C1_Witness ==
    /\ pc = "done"
    /\ HasContext(input.params)
    /\ input.key = K
    /\ input.tr.currentLocale = "fr"
    /\ "fr" \in DOMAIN input.tr.dictionaries
    /\ HasString(input.tr.dictionaries["fr"], K)
    /\ HasString(input.tr.dictionaries["fr"], KC)
    /\ HasString(input.tr.baseDictionary, KC)
    /\ input.tr.dictionaries["fr"].entries[K] # input.tr.dictionaries["fr"].entries[KC]
    /\ last.text = input.tr.dictionaries["fr"].entries[KC].s

-----------------------------------------------------------------------------
(* Interpolation: t(key, params) over templates of up to MaxTextLen atoms, *)
(* held by the base dictionary under the key K.                            *)

MaxTextLen == 4

TemplateAtoms == {"{", "}", "n", "toString", "context", " "}

RECURSIVE Texts(_)
\* every string of exactly len atoms
Texts(len) ==
    IF len = 0 THEN {<<>>}
    ELSE {text \o <<a>> : text \in Texts(len - 1), a \in TemplateAtoms}

Templates == UNION {Texts(len) : len \in 0..MaxTextLen}

InterpolationParams ==
    {NoParams,
     Params([name \in {<<"n">>} |-> Num(15)]),
     Params([name \in {<<"n">>} |-> Str(<<"Bob">>)]),
     Params([name \in {<<"m">>} |-> Str(<<"Bob">>)]),
     Params([name \in {ContextName} |-> Str(<<"c">>)]),
     Params([name \in {ContextName, <<"n">>} |->
                IF name = ContextName THEN Str(<<"c">>) ELSE Num(15)])}

InitInterpolation ==
    /\ translators = <<>>
    /\ order = <<>>
    /\ listeners = NoListeners
    /\ files = <<>>
    /\ last = Outcome("init", "", "", NoDict, <<>>)
    /\ cloud = NoCloud
    /\ window = NoWindow
    /\ settings = DEFAULT_SETTINGS
    /\ pc = "call"
    /\ input \in [tr : {TranslatorOf(Dict(NoMeta, [key \in {K} |-> Str(text)]), FALSE) :
                          text \in Templates},
                  key : {K},
                  params : InterpolationParams]

SpecInterpolation == InitInterpolation /\ [][ApplyT]_vars

\* pattern occurs in text as a contiguous run of atoms
Occurs(text, pattern) ==
    \E i \in 1..(Len(text) - Len(pattern) + 1) :
        SubSeq(text, i, i + Len(pattern) - 1) = pattern

Single(name) == <<"{">> \o name \o <<"}">>
Double(name) == <<"{", "{">> \o name \o <<"}", "}">>

\* what the specification says of one call: template, params and the text returned
InterpolationAsSpecified(template, params, text) ==
    LET supplied == IF params.given
                    THEN {name \in (DOMAIN params.fields) \ {ContextName} :
                             params.fields[name] # Undefined}
                    ELSE {}
        value(name) == ToStr(params.fields[name])
    IN  \* placeholders whose name is not supplied are left verbatim
        /\ (\A name \in supplied : ~Occurs(template, Single(name)))
               => text = template
        \* every {name} and {{name}} with a supplied name is replaced by its value
        /\ \A name \in supplied : ~Occurs(text, Single(name))
        /\ \A name \in supplied, i \in 0..Len(template), j \in 0..Len(template) :
               LET before == SubSeq(template, 1, i)
                   middle == SubSeq(template, i + 1, j)
                   after == SubSeq(template, j + 1, Len(template))
               IN  (/\ middle \in {Single(name), Double(name)}
                    /\ (before = <<>> \/ before[Len(before)] # "{")
                    /\ (after = <<>> \/ after[1] # "}"))
                   => text = interpolate(before, WithoutContext(params.fields))
                                 \o value(name)
                                 \o interpolate(after, WithoutContext(params.fields))
        \* the context field is never substituted into the text
        /\ (params.given /\ ContextName \in DOMAIN params.fields)
               => \A i \in 1..Len(text) : <<text[i]>> # value(ContextName)

\* C3: when params minus the reserved context field is non-empty, every
\* occurrence of {name} or {{name}} whose name is a supplied parameter is
\* replaced by String(params[name]); placeholders whose name is not supplied
\* are left verbatim, and the context field is never substituted.
C3_Interpolation ==
    pc = "done" =>
        InterpolationAsSpecified(input.tr.baseDictionary.entries[K].s,
                                 input.params, last.text)

\* the same, for templates that name no property inherited from Object.prototype
InterpolationOfOwnNames ==
    (pc = "done"
     /\ \A name \in ObjectPrototypeNames :
            ~Occurs(input.tr.baseDictionary.entries[K].s, Single(name)))
        => InterpolationAsSpecified(input.tr.baseDictionary.entries[K].s,
                                    input.params, last.text)

-----------------------------------------------------------------------------
(* validateDictionary(dict) as a pure function of the base dictionary and  *)
(* the payload: objects of up to MaxEntries entries, and non-objects.      *)

MaxEntries == 2

ValidationMetas ==
    {NoMeta, MetaNull, MetaStr, MetaNum,
     MetaObj(Str(<<"fr">>), Str(<<"1">>)),
     MetaObj(Undefined, Str(<<"1">>)),
     MetaObj(Str(<<"fr">>), Undefined),
     MetaObj(Str(<<>>), Num(1))}

ValidationPayloads ==
    {Dict(meta, e) :
        meta \in ValidationMetas,
        e \in {f \in Entries({K, KC, U}, {Str(<<"x">>), Str(<<>>), Num(42), Null}) :
                  Cardinality(DOMAIN f) <= MaxEntries}}
    \cup {NonObject(kind) : kind \in {"null", "undefined", "string", "number"}}

InitValidation ==
    /\ translators = <<>>
    /\ order = <<>>
    /\ listeners = NoListeners
    /\ files = <<>>
    /\ last = Outcome("init", "", "", NoDict, <<>>)
    /\ cloud = NoCloud
    /\ window = NoWindow
    /\ settings = DEFAULT_SETTINGS
    /\ pc = "call"
    /\ input \in [tr : {TranslatorOf(Dict(NoMeta, e), TRUE) :
                          e \in Entries({K, KC}, {Str(<<"Hello">>)})},
                  dict : ValidationPayloads]

\* the caller applies validateDictionary to its argument
ApplyValidate ==
    /\ pc = "call"
    /\ last' = Validated(Outcome("validateDictionary", input.tr.pluginId, "",
                                 input.dict, <<>>),
                         validateDictionary(input.tr, input.dict), <<>>, <<>>)
    /\ pc' = "done"
    /\ UNCHANGED <<translators, order, listeners, files, input, cloud, window, settings>>

SpecValidation == InitValidation /\ [][ApplyValidate]_vars

\* the non-$meta keys of a payload whose value is not a string
NonStringKeys(dict) == {k \in DOMAIN dict.entries : TypeOf(dict.entries[k]) # "string"}

-----------------------------------------------------------------------------
(* The end-to-end scenario: one caller registers a translator, loads an    *)
(* overlay through the registry, broadcasts its locale, translates,        *)
(* unloads the overlay and translates again.                               *)

ScenarioOptions ==
    {[pluginId |-> "demo", baseLocale |-> base, currentLocale |-> "",
      baseDictionary |-> Dict(NoMeta, [key \in {K} |-> Str(<<"Hello">>)]),
      onValidationError |-> cb] :
        base \in {"en", "fr"}, cb \in BOOLEAN}

ScenarioOverlays ==
    {Dict(meta, [key \in {K} |-> Str(text)]) :
        meta \in {NoMeta, MetaObj(Str(<<"fr">>), Str(<<"1">>))},
        text \in {<<"Bonjour">>, <<"Hello">>, <<"Bonjour ", "{", "n", "}">>}}

InitScenario ==
    /\ translators = <<>>
    /\ order = <<>>
    /\ listeners = NoListeners
    /\ files = <<>>
    /\ last = Outcome("init", "", "", NoDict, <<>>)
    /\ cloud = NoCloud
    /\ window = NoWindow
    /\ settings = DEFAULT_SETTINGS
    /\ pc = "start"
    /\ input \in [options : ScenarioOptions, locale : Locales, dict : ScenarioOverlays]

ScenarioRegister ==
    /\ pc = "start"
    /\ DoRegister(input.options)
    /\ pc' = "registered"
    /\ UNCHANGED <<listeners, files, input, cloud, window, settings>>

ScenarioLoad ==
    /\ pc = "registered"
    /\ DoManagerLoadDictionary(input.options.pluginId, input.locale, input.dict)
    /\ pc' = "loaded"
    /\ UNCHANGED <<listeners, files, input, cloud, window, settings>>

ScenarioSetGlobalLocale ==
    /\ pc = "loaded"
    /\ DoSetGlobalLocale(input.locale)
    /\ pc' = "switched"
    /\ UNCHANGED <<listeners, files, input, cloud, window, settings>>

ScenarioTranslate ==
    /\ pc \in {"switched", "unloaded"}
    /\ DoTranslate(input.options.pluginId, K)
    /\ pc' = IF pc = "switched" THEN "translated" ELSE "done"
    /\ UNCHANGED <<listeners, files, input, cloud, window, settings>>

ScenarioUnload ==
    /\ pc = "translated"
    /\ DoManagerUnloadDictionary(input.options.pluginId, input.locale)
    /\ pc' = "unloaded"
    /\ UNCHANGED <<listeners, files, input, cloud, window, settings>>

NextScenario ==
    \/ ScenarioRegister
    \/ ScenarioLoad
    \/ ScenarioSetGlobalLocale
    \/ ScenarioTranslate
    \/ ScenarioUnload

SpecScenario == InitScenario /\ [][NextScenario]_vars

\* C10: with base dictionary {k: b} at base locale B, after
\* Registry.loadDictionary(id, L, {k: v}) and setGlobalLocale(L), t(k)
\* returns v; after a following Registry.unloadDictionary(id, L), t(k)
\* returns b and the translator's currentLocale is B.
C10_EndToEnd ==
    /\ pc = "translated" => last.text = input.dict.entries[K].s
    /\ pc = "done"
           => /\ last.text = input.options.baseDictionary.entries[K].s
              /\ translators[input.options.pluginId].currentLocale
                     = input.options.baseLocale

\* the same scenario when the overlay's locale is not the base locale
ScenarioWithOverlayLocale ==
    input.locale # input.options.baseLocale => C10_EndToEnd

-----------------------------------------------------------------------------
(* Properties of the registry state machine *)

LoadOps == {"loadDictionary", "manager.loadDictionary"}
UnloadOps == {"unloadDictionary", "manager.unloadDictionary"}

\* the step just taken was a call of `ops` that reached the translator of a
\* registered plugin
Reached(ops) == last'.op \in ops /\ last'.id \in DOMAIN translators

\* C2: for any key present in the base dictionary, t(key) never returns an
\* empty string, whatever overlays are loaded and whatever currentLocale is.
C2_NeverEmpty ==
    (last.op = "t" /\ last.key \in DOMAIN translators[last.id].baseDictionary.entries)
        => last.text # <<>>

\* C4: unloadDictionary(baseLocale) changes nothing, and in every reachable
\* state getLoadedLocales() of every translator contains its baseLocale.
C4_BaseLocaleProtected ==
    /\ [](\A id \in DOMAIN translators :
            translators[id].baseLocale \in getLoadedLocales(translators[id]))
    /\ [][(Reached(UnloadOps) /\ last'.locale = translators[last'.id].baseLocale)
            => translators' = translators]_vars

C4_Witness ==
    /\ last.op \in UnloadOps
    /\ last.log = <<"Cannot unload base dictionary">>
    /\ Cardinality(getLoadedLocales(translators[last.id])) > 1

\* the map a successful loadDictionary(locale, dict) must leave behind
WithOverlay(dictionaries, locale, dict) ==
    [l \in (DOMAIN dictionaries) \cup {locale} |->
        IF l = locale THEN dict ELSE dictionaries[l]]

\* C5: if Translator.loadDictionary fails validation the load is not applied
\* at all (overlay map and currentLocale as before), onValidationError is
\* invoked once with the result, and valid:false with the errors is returned.
C5_RejectedLoadNotApplied ==
    [][(Reached(LoadOps) /\ last'.returned = "result" /\ ~last'.result.valid)
        => /\ translators' = translators
           /\ last'.result.errors # {}
           /\ last'.cb = IF translators[last'.id].hasCallback
                         THEN <<last'.result>> ELSE <<>>]_vars

C5_Witness ==
    /\ last.op \in LoadOps
    /\ last.returned = "result"
    /\ ~last.result.valid
    /\ last.id \in DOMAIN translators
    /\ last.cb = <<last.result>>
    /\ last.locale # translators[last.id].baseLocale
    /\ last.locale \in DOMAIN translators[last.id].dictionaries
    /\ translators[last.id].currentLocale = last.locale

\* C6: if validation passes (warnings allowed) loadDictionary(locale, dict)
\* makes dict the overlay of that locale, replacing an earlier one, leaves
\* every other overlay and currentLocale unchanged, and an overlay stays
\* loaded across later unloadDictionary calls for other locales.
C6_AcceptedLoadFrame ==
    [][/\ (Reached(LoadOps) /\ last'.returned = "result" /\ last'.result.valid)
           => /\ DOMAIN translators' = DOMAIN translators
              /\ \A id \in DOMAIN translators :
                     translators'[id] =
                         IF id = last'.id
                         THEN [translators[id] EXCEPT !.dictionaries =
                                  WithOverlay(translators[id].dictionaries,
                                              last'.locale, last'.dict)]
                         ELSE translators[id]
       /\ Reached(UnloadOps)
           => \A l \in (DOMAIN translators[last'.id].dictionaries) \ {last'.locale} :
                  /\ l \in DOMAIN translators'[last'.id].dictionaries
                  /\ translators'[last'.id].dictionaries[l]
                         = translators[last'.id].dictionaries[l]]_vars

C6_Witness ==
    /\ last.op \in LoadOps
    /\ last.returned = "result"
    /\ last.result.valid
    /\ last.result.warnings # {}
    /\ last.id \in DOMAIN translators
    /\ translators[last.id].dictionaries[last.locale] = last.dict
    /\ translators[last.id].currentLocale \notin {last.locale,
                                                   translators[last.id].baseLocale}
    /\ Cardinality(DOMAIN translators[last.id].dictionaries) = 3

\* C7: unloadDictionary(locale) for a loaded non-base locale removes that
\* overlay; currentLocale becomes baseLocale if and only if it equalled the
\* removed locale, and is otherwise left unchanged.
C7_UnloadResetsLocale ==
    [][(/\ Reached(UnloadOps)
        /\ last'.locale # translators[last'.id].baseLocale
        /\ last'.locale \in DOMAIN translators[last'.id].dictionaries)
        => LET old == translators[last'.id]
               new == translators'[last'.id]
           IN  /\ DOMAIN new.dictionaries = (DOMAIN old.dictionaries) \ {last'.locale}
               /\ \A l \in DOMAIN new.dictionaries :
                      new.dictionaries[l] = old.dictionaries[l]
               /\ new.currentLocale = IF old.currentLocale = last'.locale
                                      THEN old.baseLocale ELSE old.currentLocale
               /\ (new.currentLocale # old.currentLocale)
                      <=> (old.currentLocale = last'.locale)]_vars

C7_Witness ==
    /\ last.op \in UnloadOps
    /\ last.log = <<"Unloaded dictionary", "Locale reset to base">>
    /\ last.locale \notin DOMAIN translators[last.id].dictionaries
    /\ translators[last.id].currentLocale = translators[last.id].baseLocale
    /\ Cardinality(DOMAIN translators[last.id].dictionaries) = 2

\* C9: validateDictionary, and therefore Translator.loadDictionary and
\* Registry.loadDictionary, returns a ValidationResult and never throws,
\* whatever the payload.
C9_NeverThrows == last.returned # "throw"

-----------------------------------------------------------------------------
(* DictionaryStore: the dictionary files of the vault.  `files` maps the   *)
(* path of every file that exists to its text.  A path is the folder       *)
(* below dictionaries/, the folder of the plugin and the file name; a      *)
(* text is either JSON (json = TRUE, doc the value it denotes) or not, and *)
(* css holds the characters of a stylesheet.                               *)

JsonExt == ".json"

\* getDictionaryFilePath(pluginId, locale): plugins/<pluginId>/<locale>.json
getDictionaryFilePath(pluginId, locale) == <<"plugins", pluginId, <<locale, JsonExt>>>>

\* a text JSON.parse rejects
Garbage == [json |-> FALSE, doc |-> NoDict, css |-> <<>>]

\* JSON.stringify leaves out the properties whose value is undefined or a function
Serialized(v) == v.t \notin {"undefined", "function"}

StringifyValue(v) == IF Serialized(v) THEN v ELSE Undefined

\* JSON.stringify(dict, null, 2)
stringify(dict) ==
    [json |-> TRUE,
     css |-> <<>>,
     doc |-> IF dict.t # "object" THEN dict
             ELSE Dict(IF dict.meta.t = "object"
                       THEN [dict.meta EXCEPT
                                !.locale = StringifyValue(@),
                                !.dictVersion = StringifyValue(@),
                                !.sourceHash = StringifyValue(@)]
                       ELSE dict.meta,
                       [key \in {k \in DOMAIN dict.entries :
                                    Serialized(dict.entries[k])} |->
                           dict.entries[key]])]

\* JSON.parse(content)
parse(content) ==
    IF content.json THEN [threw |-> FALSE, doc |-> content.doc]
    ELSE [threw |-> TRUE, doc |-> NoDict]

\* adapter.write(path, content)
write(fs, path, content) ==
    [p \in (DOMAIN fs) \cup {path} |-> IF p = path THEN content ELSE fs[p]]

\* adapter.remove(path)
remove(fs, path) == [p \in (DOMAIN fs) \ {path} |-> fs[p]]

\* if (dict.$meta) dict.$meta.dictVersion = Date.now().toString();
\* (the module is strict code: setting a property of a primitive throws)
Stamp(dict, now) ==
    IF dict.meta.t = "object"
    THEN [threw |-> FALSE,
          dict |-> [dict EXCEPT !.meta.dictVersion = Str(Digits(now))]]
    ELSE IF dict.meta.t \in {"string", "number"}
    THEN [threw |-> TRUE, dict |-> dict]
    ELSE [threw |-> FALSE, dict |-> dict]

\* mutant of saveDictionary: the dictVersion of the document is left as it is
saveDictionary_NoStamp(fs, pluginId, locale, dict, now, io) ==
    IF io = "mkdir" THEN [files |-> fs, dict |-> dict, threw |-> TRUE]
    ELSE IF io = "write" THEN [files |-> fs, dict |-> dict, threw |-> TRUE]
    ELSE [files |-> write(fs, getDictionaryFilePath(pluginId, locale),
                          stringify(dict)),
          dict |-> dict,
          threw |-> FALSE]

\* DictionaryStore.saveDictionary(pluginId, locale, dict) at time `now`; io
\* names the adapter call that is rejected ("ok": none).  dict is the
\* argument afterwards: the method writes into the object it is given.
saveDictionary(fs, pluginId, locale, dict, now, io) ==
    LET s == Stamp(dict, now)
    IN  IF io = "mkdir" THEN [files |-> fs, dict |-> dict, threw |-> TRUE]
        ELSE IF s.threw \/ io = "write"
        THEN [files |-> fs, dict |-> s.dict, threw |-> TRUE]
        ELSE [files |-> write(fs, getDictionaryFilePath(pluginId, locale),
                              stringify(s.dict)),
              dict |-> s.dict,
              threw |-> FALSE]

\* mutant of DictionaryStore.loadDictionary: no try/catch around read and parse
storeLoadDictionary_NoCatch(fs, pluginId, locale, io) ==
    LET path == getDictionaryFilePath(pluginId, locale)
    IN  IF io = "read" THEN [threw |-> TRUE, doc |-> NoDict]
        ELSE IF path \notin DOMAIN fs THEN [threw |-> FALSE, doc |-> NonObject("null")]
        ELSE parse(fs[path])

\* DictionaryStore.loadDictionary(pluginId, locale); io = "read": the adapter
\* rejects exists or read
storeLoadDictionary(fs, pluginId, locale, io) ==
    LET path == getDictionaryFilePath(pluginId, locale)
    IN  IF io = "read" THEN [threw |-> FALSE, doc |-> NonObject("null")]
        ELSE IF path \notin DOMAIN fs THEN [threw |-> FALSE, doc |-> NonObject("null")]
        ELSE IF parse(fs[path]).threw THEN [threw |-> FALSE, doc |-> NonObject("null")]
        ELSE parse(fs[path])

\* DictionaryStore.deleteDictionary(pluginId, locale)
deleteDictionary(fs, pluginId, locale, io) ==
    LET path == getDictionaryFilePath(pluginId, locale)
    IN  IF io = "ok" /\ path \in DOMAIN fs
        THEN [files |-> remove(fs, path), deleted |-> TRUE]
        ELSE [files |-> fs, deleted |-> FALSE]

\* the Map key and file name a locale value stands for (the locales of the
\* model are strings of one atom)
LocaleKey(v) == ToStr(v)[1]

ParseError == Result(FALSE, {<<"$parse">>}, {})

\* dict.$meta?.locale
MetaLocale(dict) ==
    IF dict.t = "object" /\ dict.meta.t = "object" THEN dict.meta.locale
    ELSE Undefined

\* importFromFile returns before it calls the registry
ImportRejected(trs, fs, result) ==
    [translators |-> trs, loaded |-> trs, files |-> fs, result |-> result,
     cb |-> <<>>, events |-> <<>>]

\* importFromFile from manager.loadDictionary on: r is what that call did
\* and s what saveDictionary does if it is called
ImportLoaded(trs, ord, fs, pluginId, l, r, s) ==
    IF r.result.threw
    THEN [translators |-> r.translators, loaded |-> trs, files |-> fs,
          result |-> ParseError, cb |-> r.cb, events |-> r.events]
    ELSE IF ~r.result.valid
    THEN [translators |-> r.translators, loaded |-> r.translators, files |-> fs,
          result |-> r.result, cb |-> r.cb, events |-> r.events]
    ELSE \* the translator holds the object saveDictionary writes into
         LET stored == [r.translators EXCEPT ![pluginId].dictionaries[l] = s.dict]
         IN  IF s.threw
             THEN [translators |-> stored, loaded |-> r.translators, files |-> fs,
                   result |-> ParseError, cb |-> r.cb, events |-> r.events]
             ELSE [translators |-> setGlobalLocale(stored, ord, l).translators,
                   loaded |-> r.translators,
                   files |-> s.files, result |-> r.result, cb |-> r.cb,
                   events |-> r.events \o setGlobalLocale(stored, ord, l).events]

\* DictionaryStore.importFromFile(file, pluginId): content is the text of
\* the file, now and io as for saveDictionary.  loaded is the registry at the
\* emit of dictionary-loaded, translators the registry at the end.
importFromFile(trs, ord, fs, content, pluginId, now, io) ==
    IF parse(content).threw \/ parse(content).doc.t = "null"
    THEN ImportRejected(trs, fs, ParseError)
    ELSE IF Falsy(MetaLocale(parse(content).doc))
    THEN ImportRejected(trs, fs, Result(FALSE, {<<"$meta.locale">>}, {}))
    ELSE ImportLoaded(trs, ord, fs, pluginId,
                      LocaleKey(MetaLocale(parse(content).doc)),
                      managerLoadDictionary(trs, pluginId,
                                            LocaleKey(MetaLocale(parse(content).doc)),
                                            parse(content).doc),
                      saveDictionary(fs, pluginId,
                                     LocaleKey(MetaLocale(parse(content).doc)),
                                     parse(content).doc, now, io))

\* DictionaryStore.createDictionary(pluginId, locale, dict)
createDictionary(fs, pluginId, locale, dict, now, io) ==
    IF getDictionaryFilePath(pluginId, locale) \in DOMAIN fs
    THEN [files |-> fs, dict |-> dict, threw |-> TRUE]
    ELSE saveDictionary(fs, pluginId, locale, dict, now, io)

\* filePath.endsWith('.json')
EndsWithJson(name) == Len(name) > 0 /\ name[Len(name)] = JsonExt

\* fileName.replace('.json', ''): the name without its first ".json"
WithoutJson(name) ==
    LET i == CHOOSE j \in DOMAIN name :
                 name[j] = JsonExt /\ \A h \in 1 .. (j - 1) : name[h] # JsonExt
    IN  SubSeq(name, 1, i - 1) \o SubSeq(name, i + 1, Len(name))

\* dict.$meta?.dictVersion of the text of a file; a text that does not
\* parse, or null, leaves it undefined
ListedVersion(content) ==
    IF parse(content).threw THEN Undefined
    ELSE IF parse(content).doc.t = "object" /\ parse(content).doc.meta.t = "object"
    THEN parse(content).doc.meta.dictVersion
    ELSE Undefined

\* DictionaryStore.listAllDictionaries(); io = "list": the adapter rejects
\* exists or list
listAllDictionaries(fs, io) ==
    IF io = "list" THEN {}
    ELSE {[pluginId |-> path[2],
           locale |-> LocaleKey(Str(WithoutJson(path[3]))),
           fileName |-> path[3],
           filePath |-> path,
           dictVersion |-> ListedVersion(fs[path])] :
             path \in {q \in DOMAIN fs : q[1] = "plugins" /\ EndsWithJson(q[3])}}

RECURSIVE InListOrder(_)
\* the entries in the order the adapter lists them
InListOrder(infos) ==
    IF infos = {} THEN <<>>
    ELSE LET info == CHOOSE i \in infos : TRUE
         IN  <<info>> \o InListOrder(infos \ {info})

NothingLoaded(trs, fs) ==
    [translators |-> trs, files |-> fs, events |-> <<>>, cb |-> <<>>, count |-> 0,
     threw |-> FALSE, read |-> {}]

\* the files listAllDictionaries reads for their $meta
ListedFiles(fs, io) == {d.filePath : d \in listAllDictionaries(fs, io)}

RECURSIVE AutoLoadFrom(_, _, _, _)
\* the loop of autoLoadDictionaries over infos[n ..]: an exception of
\* manager.loadDictionary ends it
AutoLoadFrom(acc, infos, n, fs) ==
    IF n > Len(infos) \/ acc.threw THEN acc
    ELSE LET info == infos[n]
             dict == storeLoadDictionary(fs, info.pluginId, info.locale, "ok").doc
             r == managerLoadDictionary(acc.translators, info.pluginId, info.locale,
                                        dict)
             read == acc.read \cup {info.filePath}
         IN  IF dict.t \in {"null", "undefined"}
             THEN AutoLoadFrom([acc EXCEPT !.read = read], infos, n + 1, fs)
             ELSE AutoLoadFrom([translators |-> r.translators,
                                files |-> fs,
                                events |-> acc.events \o r.events,
                                cb |-> acc.cb \o r.cb,
                                count |-> IF ~r.result.threw /\ r.result.valid
                                          THEN acc.count + 1 ELSE acc.count,
                                threw |-> r.result.threw,
                                read |-> read],
                               infos, n + 1, fs)

\* mutant of autoLoadDictionaries: the files of the plugins that are not
\* registered are removed
autoLoadDictionaries_Prune(trs, fs, io) ==
    [AutoLoadFrom([NothingLoaded(trs, fs) EXCEPT !.read = ListedFiles(fs, io)],
                  InListOrder(listAllDictionaries(fs, io)),
                  1, fs)
        EXCEPT !.files = [p \in {q \in DOMAIN fs : q[2] \in DOMAIN trs} |-> fs[p]]]

\* DictionaryStore.autoLoadDictionaries()
autoLoadDictionaries(trs, fs, io) ==
    AutoLoadFrom([NothingLoaded(trs, fs) EXCEPT !.read = ListedFiles(fs, io)],
                 InListOrder(listAllDictionaries(fs, io)), 1, fs)

RECURSIVE LoadForPluginFrom(_, _, _, _, _)
\* the loop of loadDictionariesForPlugin over infos[n ..]: an exception is
\* logged and the loop goes on
LoadForPluginFrom(acc, infos, n, fs, pluginId) ==
    IF n > Len(infos) THEN acc
    ELSE LET p == parse(fs[infos[n].filePath])
             r == managerLoadDictionary(acc.translators, pluginId, infos[n].locale,
                                        p.doc)
             read == acc.read \cup {infos[n].filePath}
         IN  IF p.threw \/ r.result.threw
             THEN LoadForPluginFrom([acc EXCEPT !.read = read], infos, n + 1, fs, pluginId)
             ELSE LoadForPluginFrom([translators |-> r.translators,
                                     files |-> fs,
                                     events |-> acc.events \o r.events,
                                     cb |-> acc.cb \o r.cb,
                                     count |-> acc.count + 1,
                                     threw |-> FALSE,
                                     read |-> read],
                                    infos, n + 1, fs, pluginId)

\* the files are listed and loaded without asking for the translator
loadDictionariesForPlugin_Unguarded(trs, fs, pluginId, io) ==
    LoadForPluginFrom([NothingLoaded(trs, fs) EXCEPT !.read = ListedFiles(fs, io)],
                      InListOrder({d \in listAllDictionaries(fs, io) :
                                      d.pluginId = pluginId}),
                      1, fs, pluginId)

\* DictionaryStore.loadDictionariesForPlugin(pluginId)
loadDictionariesForPlugin(trs, fs, pluginId, io) ==
    IF pluginId \notin DOMAIN trs THEN NothingLoaded(trs, fs)
    ELSE LoadForPluginFrom([NothingLoaded(trs, fs) EXCEPT !.read = ListedFiles(fs, io)],
                           InListOrder({d \in listAllDictionaries(fs, io) :
                                           d.pluginId = pluginId}),
                           1, fs, pluginId)

\* mutant of orphanDicts: a dictionary whose version cannot be read is an
\* orphan as well
orphanDicts_Unreadable(installedDicts, registeredPlugins) ==
    {d \in installedDicts :
        d.pluginId \notin registeredPlugins \/ d.dictVersion = Undefined}

\* DictionaryManagerModal.onOpen: installedDicts.filter(d =>
\*     !registeredPlugins.includes(d.pluginId))
orphanDicts(installedDicts, registeredPlugins) ==
    {d \in installedDicts : d.pluginId \notin registeredPlugins}

-----------------------------------------------------------------------------
(* ThemeExtractor.  A stylesheet is a sequence of pieces of text; a 32-bit *)
(* word is its four bytes, least significant first.                        *)

LF == "LF"

\* the UTF-16 code units of the pieces stylesheets are made of
CharCodes ==
    [piece \in {"/*", "*/", " ", LF, "@settings", "name: Dark", "id: dark",
                "name: [", "body{}", "name: Light", "id: light"} |->
        CASE piece = "/*" -> <<47, 42>>
          [] piece = "*/" -> <<42, 47>>
          [] piece = " " -> <<32>>
          [] piece = LF -> <<10>>
          [] piece = "@settings" -> <<64, 115, 101, 116, 116, 105, 110, 103, 115>>
          [] piece = "name: Dark" -> <<110, 97, 109, 101, 58, 32, 68, 97, 114, 107>>
          [] piece = "id: dark" -> <<105, 100, 58, 32, 100, 97, 114, 107>>
          [] piece = "name: [" -> <<110, 97, 109, 101, 58, 32, 91>>
          [] piece = "name: Light" -> <<110, 97, 109, 101, 58, 32, 76, 105, 103, 104, 116>>
          [] piece = "id: light" -> <<105, 100, 58, 32, 108, 105, 103, 104, 116>>
          [] OTHER -> <<98, 111, 100, 121, 123, 125>>]

RECURSIVE CodeUnits(_)
\* content.charCodeAt(i) for i = 0, 1, ...
CodeUnits(content) ==
    IF content = <<>> THEN <<>>
    ELSE CharCodes[Head(content)] \o CodeUnits(Tail(content))

Word(lo, hi) == <<lo % 256, lo \div 256, hi % 256, hi \div 256>>

RECURSIVE XorBits(_, _, _)
\* a ^ b on the low n bits
XorBits(a, b, n) ==
    IF n = 0 THEN 0
    ELSE ((a + b) % 2) + 2 * XorBits(a \div 2, b \div 2, n - 1)

\* x ^ y
Xor32(x, y) ==
    <<XorBits(x[1], y[1], 8), XorBits(x[2], y[2], 8),
      XorBits(x[3], y[3], 8), XorBits(x[4], y[4], 8)>>

\* Math.imul(x, y): the low 32 bits of the product
imul(x, y) ==
    LET c1 == x[1] * y[1]
        c2 == x[1] * y[2] + x[2] * y[1] + (c1 \div 256)
        c3 == x[1] * y[3] + x[2] * y[2] + x[3] * y[1] + (c2 \div 256)
        c4 == x[1] * y[4] + x[2] * y[3] + x[3] * y[2] + x[4] * y[1] + (c3 \div 256)
    IN  <<c1 % 256, c2 % 256, c3 % 256, c4 % 256>>

\* x >>> 16
Shr16(x) == <<x[3], x[4], 0, 0>>

\* x >>> 13
Shr13(x) ==
    Word((x[2] \div 32) + 8 * x[3] + 2048 * (x[4] % 32), x[4] \div 32)

\* 0xdeadbeef, 0x41c6ce57 and the four multipliers
H1 == <<239, 190, 173, 222>>
H2 == <<87, 206, 198, 65>>
M1 == <<177, 121, 55, 158>>
M2 == <<149, 100, 53, 95>>
M3 == <<107, 202, 235, 133>>
M4 == <<53, 174, 178, 194>>

\* x is a 32-bit word
IsWord32(x) == \A k \in 1 .. 4 : x[k] \in 0 .. 255

RECURSIVE HashLoop(_, _, _, _)
\* the loop of computeHash from code unit i on: <<h1, h2>> at its end
\* (h1 and h2 are evaluated in every round, not all at the end)
HashLoop(h1, h2, units, i) ==
    IF i > Len(units) \/ ~IsWord32(h1) \/ ~IsWord32(h2) THEN <<h1, h2>>
    ELSE HashLoop(imul(Xor32(h1, Word(units[i], 0)), M1),
                  imul(Xor32(h2, Word(units[i], 0)), M2),
                  units, i + 1)

\* Math.imul(a ^ (a >>> 16), 2246822507) ^ Math.imul(b ^ (b >>> 13), 3266489909)
Mix(a, b) == Xor32(imul(Xor32(a, Shr16(a)), M3), imul(Xor32(b, Shr13(b)), M4))

HexAtom == <<"0", "1", "2", "3", "4", "5", "6", "7", "8", "9",
             "a", "b", "c", "d", "e", "f">>

RECURSIVE HexDigits(_)
\* n.toString(16)
HexDigits(n) ==
    IF n < 16 THEN <<HexAtom[n + 1]>>
    ELSE HexDigits(n \div 16) \o <<HexAtom[(n % 16) + 1]>>

\* the eight hexadecimal digits of a word
Hex8(x) ==
    <<HexAtom[(x[4] \div 16) + 1], HexAtom[(x[4] % 16) + 1],
      HexAtom[(x[3] \div 16) + 1], HexAtom[(x[3] % 16) + 1],
      HexAtom[(x[2] \div 16) + 1], HexAtom[(x[2] % 16) + 1],
      HexAtom[(x[1] \div 16) + 1], HexAtom[(x[1] % 16) + 1]>>

RECURSIVE WithoutLeadingZeros(_)
WithoutLeadingZeros(digits) ==
    IF Len(digits) > 1 /\ Head(digits) = "0" THEN WithoutLeadingZeros(Tail(digits))
    ELSE digits

\* (4294967296 * (2097151 & h2) + (h1 >>> 0)).toString(16)
ToHex(h1, h2) ==
    IF h2[1] + 256 * h2[2] + 65536 * (h2[3] % 32) = 0
    THEN WithoutLeadingZeros(Hex8(h1))
    ELSE HexDigits(h2[1] + 256 * h2[2] + 65536 * (h2[3] % 32)) \o Hex8(h1)

\* the last two statements of computeHash on the loop's <<h1, h2>>
Finish(h) == ToHex(Mix(h[1], h[2]), Mix(h[2], Mix(h[1], h[2])))

\* the two accumulators are kept between calls instead of being locals: a
\* call that follows another call starts from other seeds
computeHash_Stateful(content) ==
    Finish(HashLoop(IF last.op = "init" THEN H1 ELSE H2, H2, CodeUnits(content), 1))

\* ThemeExtractor.computeHash(content)
computeHash(content) == Finish(HashLoop(H1, H2, CodeUnits(content), 1))

\* \s of the regular expression
IsSpace(piece) == piece \in {" ", LF}

RECURSIVE SkipSpace(_, _)
\* the index after the longest run of \s pieces starting at i
SkipSpace(content, i) ==
    IF i <= Len(content) /\ IsSpace(content[i]) THEN SkipSpace(content, i + 1) ELSE i

RECURSIVE FirstClose(_, _)
\* the index of the first "*/" at or after i (0: none)
FirstClose(content, i) ==
    IF i > Len(content) THEN 0
    ELSE IF content[i] = "*/" THEN i
    ELSE FirstClose(content, i + 1)

\* what parseYaml makes of the body of a block: threw, or the name and the
\* id of the configuration (undefined when it has none)
NoConfig == [threw |-> FALSE, name |-> Undefined, id |-> Undefined]

parseYaml(yaml) ==
    LET lines == SelectSeq(yaml, LAMBDA piece : ~IsSpace(piece))
    IN  IF lines = <<>> THEN NoConfig
        ELSE IF lines = <<"name: Dark">>
        THEN [NoConfig EXCEPT !.name = Str(<<"Dark">>)]
        ELSE IF lines = <<"id: dark">>
        THEN [NoConfig EXCEPT !.id = Str(<<"dark">>)]
        ELSE IF lines \in {<<"name: Dark", "id: dark">>, <<"id: dark", "name: Dark">>}
        THEN [NoConfig EXCEPT !.name = Str(<<"Dark">>), !.id = Str(<<"dark">>)]
        ELSE IF lines = <<"body{}">> THEN NoConfig
        ELSE IF lines = <<"name: Light", "id: light">>
        THEN [NoConfig EXCEPT !.name = Str(<<"Light">>), !.id = Str(<<"light">>)]
        ELSE [NoConfig EXCEPT !.threw = TRUE]

NoStrings == [names |-> <<>>, ids |-> <<>>]

\* the body of the while loop of extractSettings for one block
Harvest(acc, yaml) ==
    IF yaml = <<>> \/ parseYaml(yaml).threw THEN acc
    ELSE [names |-> IF Falsy(parseYaml(yaml).name)
                       \/ (\E i \in DOMAIN acc.names :
                               acc.names[i] = parseYaml(yaml).name)
                    THEN acc.names
                    ELSE Append(acc.names, parseYaml(yaml).name),
          ids |-> IF Falsy(parseYaml(yaml).id) THEN acc.ids
                  ELSE Append(acc.ids, parseYaml(yaml).id)]

RECURSIVE Blocks_AbortOnFailure(_, _, _)
\* the try statement is around the while loop: the first block that fails
\* to parse ends the extraction
Blocks_AbortOnFailure(acc, content, i) ==
    IF i > Len(content) THEN acc
    ELSE IF /\ content[i] = "/*"
            /\ SkipSpace(content, i + 1) <= Len(content)
            /\ content[SkipSpace(content, i + 1)] = "@settings"
            /\ FirstClose(content, SkipSpace(content, i + 1) + 1) > 0
    THEN LET yaml == SubSeq(content, SkipSpace(content, i + 1) + 1,
                            FirstClose(content, SkipSpace(content, i + 1) + 1) - 1)
         IN  IF yaml # <<>> /\ parseYaml(yaml).threw THEN acc
             ELSE Blocks_AbortOnFailure(Harvest(acc, yaml), content,
                                        FirstClose(content, SkipSpace(content, i + 1) + 1) + 1)
    ELSE Blocks_AbortOnFailure(acc, content, i + 1)

RECURSIVE Blocks(_, _, _)
\* regex.exec from index i on: /\/\*\s*@settings([\s\S]*?)\*\//g
Blocks(acc, content, i) ==
    IF i > Len(content) THEN acc
    ELSE IF /\ content[i] = "/*"
            /\ SkipSpace(content, i + 1) <= Len(content)
            /\ content[SkipSpace(content, i + 1)] = "@settings"
            /\ FirstClose(content, SkipSpace(content, i + 1) + 1) > 0
    THEN Blocks(Harvest(acc, SubSeq(content, SkipSpace(content, i + 1) + 1,
                                    FirstClose(content, SkipSpace(content, i + 1) + 1)
                                        - 1)),
                content, FirstClose(content, SkipSpace(content, i + 1) + 1) + 1)
    ELSE Blocks(acc, content, i + 1)

IdsKey == <<"@@ids">>

RECURSIVE Joined(_)
\* the ids in double quotes with commas between them
Joined(ids) ==
    IF Len(ids) = 1 THEN <<"\"">> \o ids[1].s \o <<"\"">>
    ELSE <<"\"">> \o ids[1].s \o <<"\"", ",">> \o Joined(Tail(ids))

\* ThemeExtractor.extractSettings(cssContent): strings maps every harvested
\* string to itself and "@@ids" to the list of ids
extractSettings(cssContent) ==
    LET found == Blocks(NoStrings, cssContent, 1)
        keys == {found.names[i].s : i \in DOMAIN found.names}
                    \cup (IF found.ids = <<>> THEN {} ELSE {IdsKey})
    IN  [strings |-> [key \in keys |->
                         IF key = IdsKey
                         THEN Str(<<"[">> \o Joined(found.ids) \o <<"]">>)
                         ELSE Str(key)],
         ids |-> found.ids,
         hash |-> computeHash(cssContent)]


-----------------------------------------------------------------------------
(* The base dictionary of a theme.  (The dictionaries the registry keeps   *)
(* for themes in memory are not part of the state.)                        *)

\* <configDir>/themes/<themeName>/theme.css
ThemeCssPath(themeName) == <<"config/themes", themeName, <<"theme", ".css">>>>

\* getThemeDictionaryFilePath(themeName, locale): themes/<themeName>/<locale>.json
getThemeDictionaryFilePath(themeName, locale) ==
    <<"themes", themeName, <<locale, JsonExt>>>>

\* the text of a stylesheet
Stylesheet(content) == [json |-> FALSE, doc |-> NoDict, css |-> content]

\* dict.$meta?.sourceHash of the text of a dictionary file (JSON text)
StoredHash(content) ==
    IF content.doc.t = "object" /\ content.doc.meta.t = "object"
    THEN content.doc.meta.sourceHash
    ELSE Undefined

\* the document generateBaseThemeDictionary builds from what was extracted
BaseThemeDict(extracted, now) ==
    Dict([MetaObj(Str(<<"en">>), Str(Digits(now))) EXCEPT
             !.sourceHash = Str(extracted.hash)],
         extracted.strings)

\* DictionaryStore.generateBaseThemeDictionary(themeName) at time `now`;
\* io = "write": the adapter rejects mkdir or write
generateBaseThemeDictionary(fs, themeName, now, io) ==
    IF ThemeCssPath(themeName) \notin DOMAIN fs
    THEN [files |-> fs, returned |-> "null", threw |-> FALSE]
    ELSE IF DOMAIN extractSettings(fs[ThemeCssPath(themeName)].css).strings = {}
    THEN [files |-> fs, returned |-> "null", threw |-> FALSE]
    ELSE IF io = "write"
    THEN [files |-> fs, returned |-> "throw", threw |-> TRUE]
    ELSE [files |-> write(fs, getThemeDictionaryFilePath(themeName, "en"),
                          stringify(BaseThemeDict(
                              extractSettings(fs[ThemeCssPath(themeName)].css), now))),
          returned |-> "info",
          threw |-> FALSE]

\* mutant of ensureThemeBaseDictionaryUpToDate: the stored hash is not looked at
ensureThemeBaseDictionaryUpToDate_NoHashCheck(fs, themeName, now, io) ==
    IF ThemeCssPath(themeName) \notin DOMAIN fs
    THEN [files |-> fs, returned |-> "false"]
    ELSE IF DOMAIN extractSettings(fs[ThemeCssPath(themeName)].css).strings = {}
    THEN [files |-> fs, returned |-> "false"]
    ELSE [files |-> generateBaseThemeDictionary(fs, themeName, now, io).files,
          returned |-> IF generateBaseThemeDictionary(fs, themeName, now, io).threw
                       THEN "throw" ELSE "true"]

\* DictionaryStore.ensureThemeBaseDictionaryUpToDate(themeName)
ensureThemeBaseDictionaryUpToDate(fs, themeName, now, io) ==
    IF ThemeCssPath(themeName) \notin DOMAIN fs
    THEN [files |-> fs, returned |-> "false"]
    ELSE IF getThemeDictionaryFilePath(themeName, "en") \notin DOMAIN fs
    THEN IF DOMAIN extractSettings(fs[ThemeCssPath(themeName)].css).strings # {}
         THEN [files |-> generateBaseThemeDictionary(fs, themeName, now, io).files,
               returned |-> IF generateBaseThemeDictionary(fs, themeName, now, io).threw
                            THEN "throw" ELSE "true"]
         ELSE [files |-> fs, returned |-> "false"]
    ELSE IF \/ parse(fs[getThemeDictionaryFilePath(themeName, "en")]).threw
            \/ parse(fs[getThemeDictionaryFilePath(themeName, "en")]).doc.t = "null"
    THEN [files |-> fs, returned |-> "false"]
    ELSE IF StoredHash(fs[getThemeDictionaryFilePath(themeName, "en")])
                = Str(computeHash(fs[ThemeCssPath(themeName)].css))
    THEN [files |-> fs, returned |-> "false"]
    ELSE [files |-> generateBaseThemeDictionary(fs, themeName, now, io).files,
          returned |-> IF generateBaseThemeDictionary(fs, themeName, now, io).threw
                       THEN "false" ELSE "true"]

\* DictionaryStore.deleteThemeDictionary(themeName, locale)
deleteThemeDictionary(fs, themeName, locale) ==
    remove(fs, getThemeDictionaryFilePath(themeName, locale))


-----------------------------------------------------------------------------
(* The store with the registry: one plugin that registers, a folder        *)
(* "ghost" of a plugin that never does, and the adapter failing at will.   *)

StoreIds == {"demo", "ghost"}
StoreLocales == {"fr"}
Times == {41, 42}

StoreOptions ==
    {[pluginId |-> "demo", baseLocale |-> "en", currentLocale |-> "",
      baseDictionary |-> BaseHello, onValidationError |-> FALSE]}

Bonjour == Dict(MetaObj(Str(<<"fr">>), Str(<<"1">>)), [key \in {K} |-> Str(<<"Bonjour">>)])

\* the documents a client hands to saveDictionary (type Dictionary)
StoreDicts ==
    {Dict(MetaObj(Str(<<"fr">>), Undefined),
          [key \in {K, U} |-> IF key = K THEN Str(<<"Salut">>) ELSE Undefined]),
     Dict(NoMeta, [key \in {K} |-> Str(<<"Salut">>)])}

\* what the folder holds when the plugin starts
InitialDisks ==
    {<<>>,
     write(write(<<>>, getDictionaryFilePath("ghost", "fr"), stringify(Bonjour)),
           <<"plugins", "ghost", <<"notes", ".txt">>>>, Garbage),
     write(<<>>, getDictionaryFilePath("demo", "fr"), Garbage),
     \* a file edited by hand: it parses, and validation rejects it
     write(<<>>, getDictionaryFilePath("demo", "fr"),
           stringify(Dict(MetaObj(Str(<<"fr">>), Str(<<"1">>)), [key \in {K} |-> Num(42)])))}

InitStore ==
    /\ translators = <<>>
    /\ order = <<>>
    /\ listeners = NoListeners
    /\ files \in InitialDisks
    /\ last = Outcome("init", "", "", NoDict, <<>>)
    /\ cloud = NoCloud
    /\ window = NoWindow
    /\ settings = DEFAULT_SETTINGS
    /\ pc = "idle"
    /\ input = <<>>

SaveDictionary(id, locale, dict, now, io) ==
    LET r == saveDictionary(files, id, locale, dict, now, io)
    IN  /\ files' = r.files
        /\ last' = [Outcome("saveDictionary", id, locale, dict, <<>>) EXCEPT
                        !.returned = IF r.threw THEN "throw" ELSE "void",
                        !.doc = r.dict, !.now = now, !.io = io]
        /\ UNCHANGED <<translators, order, listeners, pc, input, cloud, window, settings>>

StoreLoadDictionary(id, locale, io) ==
    LET r == storeLoadDictionary(files, id, locale, io)
    IN  /\ last' = [Outcome("store.loadDictionary", id, locale, NoDict, <<>>) EXCEPT
                        !.returned = IF r.threw THEN "throw" ELSE "value",
                        !.doc = r.doc, !.io = io]
        /\ UNCHANGED <<translators, order, listeners, files, pc, input, cloud, window, settings>>

DeleteDictionary(id, locale, io) ==
    LET r == deleteDictionary(files, id, locale, io)
    IN  /\ files' = r.files
        /\ last' = [Outcome("deleteDictionary", id, locale, NoDict, <<>>) EXCEPT
                        !.returned = IF r.deleted THEN "true" ELSE "false",
                        !.io = io]
        /\ UNCHANGED <<translators, order, listeners, pc, input, cloud, window, settings>>

\* the texts of the files a user picks for import
ImportTexts ==
    {Garbage,
     stringify(NonObject("null")),
     stringify(Bonjour),
     stringify(Dict(NoMeta, [key \in {K} |-> Str(<<"Salut">>)])),
     stringify(Dict(MetaObj(Str(<<"fr">>), Str(<<"1">>)), [key \in {K} |-> Num(42)]))}

ImportFromFile(content, id, now, io) ==
    LET r == importFromFile(translators, order, files, content, id, now, io)
        n == Len(r.events)
        e1 == emit(listeners, SubSeq(r.events, 1, IF n > 0 THEN 1 ELSE 0),
                   Observe(r.loaded))
        e2 == emit(listeners, SubSeq(r.events, 2, n), Observe(r.translators))
    IN  /\ translators' = r.translators
        /\ files' = r.files
        /\ last' = [Validated(Outcome("importFromFile", id, "", content.doc, <<>>),
                              r.result, r.cb, r.events)
                        EXCEPT !.invoked = e1.invoked \o e2.invoked,
                               !.now = now, !.io = io]
        /\ UNCHANGED <<order, listeners, pc, input, cloud, window, settings>>

\* the dictionary DictionaryManagerModal.createNewDictionary builds: the
\* keys of the base dictionary with "" values
NewDict(locale) ==
    Dict(MetaObj(Str(<<locale>>), Str(<<"1.0.0">>)), [key \in {K} |-> Str(<<>>)])

CreateDictionary(id, locale, dict, now, io) ==
    LET r == createDictionary(files, id, locale, dict, now, io)
    IN  /\ files' = r.files
        /\ last' = [Outcome("createDictionary", id, locale, dict, <<>>) EXCEPT
                        !.returned = IF r.threw THEN "throw" ELSE "void",
                        !.doc = r.dict, !.now = now, !.io = io]
        /\ UNCHANGED <<translators, order, listeners, pc, input, cloud, window, settings>>

\* (no callback is attached in this specification: `seen` matters to none)
AutoLoadDictionaries(io) ==
    LET r == autoLoadDictionaries(translators, files, io)
        e == emit(listeners, r.events, Observe(r.translators))
    IN  /\ translators' = r.translators
        /\ files' = r.files
        /\ last' = [Emitted(Outcome("autoLoadDictionaries", "", "", NoDict, <<>>),
                            r.events, e)
                        EXCEPT !.returned = IF r.threw THEN "throw" ELSE "count",
                               !.cb = r.cb, !.count = r.count, !.io = io,
                               !.read = r.read]
        /\ UNCHANGED <<order, listeners, pc, input, cloud, window, settings>>

LoadDictionariesForPlugin(id, io) ==
    LET r == loadDictionariesForPlugin(translators, files, id, io)
        e == emit(listeners, r.events, Observe(r.translators))
    IN  /\ translators' = r.translators
        /\ files' = r.files
        /\ last' = [Emitted(Outcome("loadDictionariesForPlugin", id, "", NoDict, <<>>),
                            r.events, e)
                        EXCEPT !.returned = "count",
                               !.cb = r.cb, !.count = r.count, !.io = io,
                               !.read = r.read]
        /\ UNCHANGED <<order, listeners, pc, input, cloud, window, settings>>

\* DictionaryManagerModal.onOpen: the registered plugins, the installed
\* dictionaries and the orphans among them
OnOpen(io) ==
    LET registeredPlugins == getRegisteredPlugins(translators)
        installedDicts == listAllDictionaries(files, io)
    IN  /\ last' = [Outcome("onOpen", "", "", NoDict, <<>>) EXCEPT
                        !.listed = installedDicts,
                        !.orphans = orphanDicts(installedDicts, registeredPlugins),
                        !.io = io]
        /\ UNCHANGED <<translators, order, listeners, files, pc, input, cloud, window, settings>>

NextStore ==
    \/ \E id \in StoreIds, locale \in StoreLocales, dict \in StoreDicts,
          now \in Times, io \in {"ok", "mkdir", "write"} :
           SaveDictionary(id, locale, dict, now, io)
    \/ \E id \in StoreIds, locale \in StoreLocales, io \in {"ok", "read"} :
           StoreLoadDictionary(id, locale, io)
    \/ \E id \in StoreIds, locale \in StoreLocales, io \in {"ok", "remove"} :
           DeleteDictionary(id, locale, io)
    \/ \E id \in StoreIds, locale \in StoreLocales, now \in Times,
          io \in {"ok", "write"} :
           CreateDictionary(id, locale, NewDict(locale), now, io)

SpecStore == InitStore /\ [][NextStore]_vars

\* the store with the registry: plugins register and unregister while
\* dictionaries are imported, loaded from the folder, listed and deleted
ImportTimes == {42}

NextVault ==
    \/ \E options \in StoreOptions : Register(options)
    \/ \E id \in StoreIds : Unregister(id)
    \/ \E locale \in StoreLocales : SetGlobalLocale(locale)
    \/ \E content \in ImportTexts, id \in StoreIds, now \in ImportTimes,
          io \in {"ok", "write"} :
           ImportFromFile(content, id, now, io)
    \/ \E io \in {"ok", "list"} : AutoLoadDictionaries(io)
    \/ \E id \in StoreIds, io \in {"ok", "list"} : LoadDictionariesForPlugin(id, io)
    \/ \E io \in {"ok", "list"} : OnOpen(io)
    \/ \E id \in StoreIds, locale \in StoreLocales, io \in {"ok", "remove"} :
           DeleteDictionary(id, locale, io)

SpecVault == InitStore /\ [][NextVault]_vars

\* the document `loaded` read back after saveDictionary was given `dict` at `now`
RoundTrip(dict, now, loaded) ==
    /\ loaded.t = "object"
    /\ \A key \in (DOMAIN dict.entries) \cup (DOMAIN loaded.entries) :
           GetProp(loaded.entries, key) = GetProp(dict.entries, key)
    /\ IF dict.meta.t = "object"
       THEN /\ loaded.meta.t = "object"
            /\ loaded.meta.locale = dict.meta.locale
            /\ loaded.meta.sourceHash = dict.meta.sourceHash
            /\ loaded.meta.dictVersion = Str(Digits(now))
       ELSE loaded.meta = dict.meta

C15_StoreLoadNeverThrows ==
    last.op = "store.loadDictionary" =>
        LET path == getDictionaryFilePath(last.id, last.locale)
        IN  /\ last.returned # "throw"
            /\ IF path \notin DOMAIN files \/ last.io = "read" \/ ~files[path].json
               THEN last.doc = NonObject("null")
               ELSE last.doc = files[path].doc

\* loadDictionary was called on a file that is not JSON and returned null
C15_Witness ==
    /\ last.op = "store.loadDictionary"
    /\ last.io = "ok"
    /\ getDictionaryFilePath(last.id, last.locale) \in DOMAIN files
    /\ ~files[getDictionaryFilePath(last.id, last.locale)].json
    /\ last.returned = "value"
    /\ last.doc = NonObject("null")

\* C16: importFromFile is never partially applied: whenever it returns
\* valid:false no dictionary file has been written, no overlay has been
\* loaded into a translator and no translator's currentLocale has changed.
C16_ImportNotPartial ==
    [][(last'.op = "importFromFile" /\ ~last'.result.valid)
           => (files' = files /\ translators' = translators)]_vars

\* what does hold: an import that returns valid:false writes no file and
\* changes no currentLocale
C16_RejectedImportWritesNothing ==
    [][(last'.op = "importFromFile" /\ ~last'.result.valid)
           => /\ files' = files
              /\ \A id \in DOMAIN translators :
                     translators'[id].currentLocale = translators[id].currentLocale]_vars

ReadingOps ==
    {"register", "unregister", "setGlobalLocale", "autoLoadDictionaries",
     "loadDictionariesForPlugin", "onOpen", "store.loadDictionary"}

\* the files in the folders of plugins that are not registered
Orphaned(fs, trs) == {path \in DOMAIN fs : path[2] \notin getRegisteredPlugins(trs)}

-----------------------------------------------------------------------------
(* A theme whose stylesheet changes while its base dictionary is kept up   *)
(* to date.                                                                *)

ThemeNames == {"Moon"}

Stylesheets ==
    {<<"body{}">>,
     <<"/*", " ", "@settings", LF, "name: Dark", LF, "*/", "body{}">>,
     <<"/*", "@settings", LF, "name: Dark", LF, "id: dark", LF, "*/">>,
     <<"/*", "@settings", LF, "name: [", LF, "*/", "body{}">>}

ThemeDisks ==
    {<<>>,
     write(write(<<>>, ThemeCssPath("Moon"),
                 Stylesheet(<<"/*", " ", "@settings", LF, "name: Dark", LF, "*/",
                              "body{}">>)),
           getThemeDictionaryFilePath("Moon", "en"), Garbage)}

InitTheme ==
    /\ translators = <<>>
    /\ order = <<>>
    /\ listeners = NoListeners
    /\ files \in ThemeDisks
    /\ last = Outcome("init", "", "", NoDict, <<>>)
    /\ cloud = NoCloud
    /\ window = NoWindow
    /\ settings = DEFAULT_SETTINGS
    /\ pc = "idle"
    /\ input = <<>>

\* the theme is installed or updated: its theme.css is replaced
WriteStylesheet(themeName, content) ==
    /\ files' = write(files, ThemeCssPath(themeName), Stylesheet(content))
    /\ last' = Outcome("writeStylesheet", themeName, "", NoDict, <<>>)
    /\ UNCHANGED <<translators, order, listeners, pc, input, cloud, window, settings>>

GenerateBaseThemeDictionary(themeName, now, io) ==
    LET r == generateBaseThemeDictionary(files, themeName, now, io)
    IN  /\ files' = r.files
        /\ last' = [Outcome("generateBaseThemeDictionary", themeName, "en", NoDict,
                            <<>>)
                        EXCEPT !.returned = r.returned, !.now = now, !.io = io]
        /\ UNCHANGED <<translators, order, listeners, pc, input, cloud, window, settings>>

EnsureThemeBaseDictionaryUpToDate(themeName, now, io) ==
    LET r == ensureThemeBaseDictionaryUpToDate(files, themeName, now, io)
    IN  /\ files' = r.files
        /\ last' = [Outcome("ensureThemeBaseDictionaryUpToDate", themeName, "en",
                            NoDict, <<>>)
                        EXCEPT !.returned = r.returned, !.now = now, !.io = io]
        /\ UNCHANGED <<translators, order, listeners, pc, input, cloud, window, settings>>

DeleteThemeDictionary(themeName, locale) ==
    /\ files' = deleteThemeDictionary(files, themeName, locale)
    /\ last' = Outcome("deleteThemeDictionary", themeName, locale, NoDict, <<>>)
    /\ UNCHANGED <<translators, order, listeners, pc, input, cloud, window, settings>>

NextTheme ==
    \/ \E themeName \in ThemeNames, content \in Stylesheets :
           WriteStylesheet(themeName, content)
    \/ \E themeName \in ThemeNames, now \in Times, io \in {"ok", "write"} :
           GenerateBaseThemeDictionary(themeName, now, io)
    \/ \E themeName \in ThemeNames, now \in Times, io \in {"ok", "write"} :
           EnsureThemeBaseDictionaryUpToDate(themeName, now, io)
    \/ \E themeName \in ThemeNames : DeleteThemeDictionary(themeName, "en")

SpecTheme == InitTheme /\ [][NextTheme]_vars

\* the stored en document of the theme carries the fingerprint of its stylesheet
HashCurrent(fs, themeName) ==
    /\ ThemeCssPath(themeName) \in DOMAIN fs
    /\ getThemeDictionaryFilePath(themeName, "en") \in DOMAIN fs
    /\ fs[getThemeDictionaryFilePath(themeName, "en")].json
    /\ StoredHash(fs[getThemeDictionaryFilePath(themeName, "en")])
           = Str(computeHash(fs[ThemeCssPath(themeName)].css))

\* C19: ensureThemeBaseDictionaryUpToDate regenerates only on mismatch: when
\* the sourceHash of the stored en document equals the fingerprint of the
\* stylesheet it writes nothing and returns false; it writes only when the
\* en document is missing and the stylesheet yields a string, or when the
\* two hashes differ.
C19_RegenerateOnlyOnMismatch ==
    [][last'.op = "ensureThemeBaseDictionaryUpToDate" =>
          /\ HashCurrent(files, last'.id)
                 => (files' = files /\ last'.returned = "false")
          /\ files' # files =>
                 /\ ThemeCssPath(last'.id) \in DOMAIN files
                 /\ \/ /\ getThemeDictionaryFilePath(last'.id, "en") \notin DOMAIN files
                       /\ DOMAIN extractSettings(
                              files[ThemeCssPath(last'.id)].css).strings # {}
                    \/ /\ getThemeDictionaryFilePath(last'.id, "en") \in DOMAIN files
                       /\ ~HashCurrent(files, last'.id)]_vars

\* the check was made on an en document that carries the fingerprint of the
\* stylesheet, and answered false
C19_Witness ==
    /\ last.op = "ensureThemeBaseDictionaryUpToDate"
    /\ last.returned = "false"
    /\ HashCurrent(files, last.id)

\* C20: with the stylesheet unchanged, after a call of
\* ensureThemeBaseDictionaryUpToDate that returns true the sourceHash of the
\* stored en document equals the fingerprint of the stylesheet, and a call
\* that follows at once returns false and writes nothing.
C20_IdempotentProjection ==
    [][/\ (last'.op = "ensureThemeBaseDictionaryUpToDate" /\ last'.returned = "true")
              => HashCurrent(files', last'.id)
       /\ (/\ last.op = "ensureThemeBaseDictionaryUpToDate"
           /\ last.returned = "true"
           /\ last'.op = "ensureThemeBaseDictionaryUpToDate"
           /\ last'.id = last.id)
              => (last'.returned = "false" /\ files' = files)]_vars

\* what does hold: the same, for a stylesheet that yields at least one string
C20_IdempotentWithStrings ==
    [][(/\ ThemeCssPath(last'.id) \in DOMAIN files
        /\ DOMAIN extractSettings(files[ThemeCssPath(last'.id)].css).strings # {})
       => /\ (last'.op = "ensureThemeBaseDictionaryUpToDate"
                 /\ last'.returned = "true")
                 => HashCurrent(files', last'.id)
          /\ (/\ last.op = "ensureThemeBaseDictionaryUpToDate"
              /\ last.returned = "true"
              /\ last'.op = "ensureThemeBaseDictionaryUpToDate"
              /\ last'.id = last.id)
                 => (last'.returned = "false" /\ files' = files)]_vars

-----------------------------------------------------------------------------
(* CloudManager: the remote manifest.                                      *)
(*                                                                         *)
(* A promise is named by the number of the call that created it; 0 is      *)
(* null.  Each promise created by fetchRemoteManifest has issued exactly   *)
(* one requestUrl call, which stays in cloud.pending until its response    *)
(* arrives and the rest of the async function runs.  A URL is a sequence   *)
(* of atoms; the two prefixes the code names are two atoms long each, so   *)
(* that a URL can share a beginning with a prefix without starting with it.*)

CanonicalPrefix == <<"https://raw.githubusercontent.com/", "open-obsidian-i18n/dictionaries/main/">>
MirrorPrefix == <<"https://cdn.jsdelivr.net/gh/", "open-obsidian-i18n/dictionaries@main/">>

\* String.prototype.startsWith
startsWith(url, prefix) ==
    /\ Len(url) >= Len(prefix)
    /\ SubSeq(url, 1, Len(prefix)) = prefix

\* the index of the first occurrence of pattern in url at or after i, 0 if none
RECURSIVE IndexOf(_, _, _)
IndexOf(url, pattern, i) ==
    IF i + Len(pattern) - 1 > Len(url) THEN 0
    ELSE IF SubSeq(url, i, i + Len(pattern) - 1) = pattern THEN i
    ELSE IndexOf(url, pattern, i + 1)

\* String.prototype.replace with a string pattern: the first occurrence only
replace(url, pattern, replacement) ==
    LET i == IndexOf(url, pattern, 1)
    IN  IF i = 0 THEN url
        ELSE SubSeq(url, 1, i - 1) \o replacement \o SubSeq(url, i + Len(pattern), Len(url))

\* rewriteUrl of fetchRemoteManifest; url is a JavaScript value.  A value
\* that is truthy and not a string has no startsWith method: TypeError
rewriteUrl(url) ==
    IF Falsy(url) THEN [threw |-> FALSE, url |-> url]
    ELSE IF url.t # "string" THEN [threw |-> TRUE, url |-> url]
    ELSE IF startsWith(url.s, CanonicalPrefix)
    THEN [threw |-> FALSE, url |-> Str(replace(url.s, CanonicalPrefix, MirrorPrefix))]
    ELSE [threw |-> FALSE, url |-> url]

\* entries.map(p => ({ ...p, downloadUrl: rewriteUrl(p.downloadUrl) }))
Rewritten(entries) ==
    [threw |-> \E i \in DOMAIN entries : rewriteUrl(entries[i].downloadUrl).threw,
     list |-> [i \in DOMAIN entries |->
                  [entries[i] EXCEPT !.downloadUrl = rewriteUrl(@).url]]]

\* only the plugin entries are rewritten
Catalog_ThemesAsSent(response) ==
    LET plugins == Rewritten(response.plugins)
    IN  IF response.kind # "ok" \/ plugins.threw
        THEN [threw |-> TRUE, list |-> <<>>]
        ELSE [threw |-> FALSE, list |-> plugins.list \o response.themes]

\* what the try block makes of a response: the catalog, or an exception.
\* response.kind is "ok" (status 200, a manifest object), "status" (another
\* status), "network" (requestUrl rejects) or "malformed" (the body is not
\* JSON, or is JSON null)
Catalog(response) ==
    LET plugins == Rewritten(response.plugins)
        themes == Rewritten(response.themes)
    IN  IF response.kind # "ok" \/ plugins.threw \/ themes.threw
        THEN [threw |-> TRUE, list |-> <<>>]
        ELSE [threw |-> FALSE, list |-> plugins.list \o themes.list]

\* fetchRemoteManifest up to its return: a shared promise, or a new async
\* function that has called requestUrl and awaits the response
fetchRemoteManifest(c, force) ==
    IF c.fetchPromise # 0 /\ ~force
    THEN [cloud |-> c, promise |-> c.fetchPromise, requested |-> FALSE]
    ELSE LET p == c.issued + 1
         IN  [cloud |-> [c EXCEPT !.issued = p, !.pending = @ \cup {p},
                                  !.fetchPromise = p],
              promise |-> p, requested |-> TRUE]

\* the catch block keeps the catalog of the earlier fetch
resume_KeepCatalog(c, p, response) ==
    LET r == Catalog(response)
    IN  [cloud |-> [c EXCEPT !.remoteManifest = IF r.threw THEN @ ELSE r.list,
                             !.hasLoaded = IF r.threw THEN @ ELSE TRUE,
                             !.fetchPromise = 0,
                             !.pending = @ \ {p}],
         settled |-> "resolve",
         value |-> r.list]

\* a response that arrives for a superseded promise is dropped
resume_IgnoreSuperseded(c, p, response) ==
    LET r == Catalog(response)
    IN  [cloud |-> [c EXCEPT !.remoteManifest = IF c.fetchPromise = p THEN r.list ELSE @,
                             !.hasLoaded = IF r.threw THEN @ ELSE TRUE,
                             !.fetchPromise = 0,
                             !.pending = @ \ {p}],
         settled |-> "resolve",
         value |-> r.list]

\* the async function of promise p from the response on: try, catch, finally
resume(c, p, response) ==
    LET r == Catalog(response)
    IN  [cloud |-> [c EXCEPT !.remoteManifest = r.list,
                             !.hasLoaded = IF r.threw THEN @ ELSE TRUE,
                             !.fetchPromise = 0,
                             !.pending = @ \ {p}],
         settled |-> "resolve",
         value |-> r.list]

\* get isFetching
isFetching(c) == c.fetchPromise # 0

\* bound on the number of manifest requests of one run
MaxRequests == 3

Rest == <<"plugins/demo/fr.json">>

Entry(owner, url) ==
    [owner |-> owner, locale |-> "fr", dictVersion |-> Str(<<"1">>), downloadUrl |-> url]

\* download URLs: canonical, canonical twice, the bare canonical prefix,
\* already on the mirror, on the canonical host but in another repository,
\* the canonical prefix in the query of another URL, absent, not a string
Urls ==
    {Str(CanonicalPrefix \o Rest),
     Str(CanonicalPrefix \o CanonicalPrefix \o Rest),
     Str(CanonicalPrefix),
     Str(MirrorPrefix \o Rest),
     Str(<<CanonicalPrefix[1], "other/repo/">> \o Rest),
     Str(<<"https://example.org/?u=">> \o CanonicalPrefix \o Rest),
     Undefined,
     Num(1)}

Response(kind, plugins, themes) == [kind |-> kind, plugins |-> plugins, themes |-> themes]

\* the responses the manifest request can end with
Responses ==
    {Response("ok", <<Entry("demo", u)>>, <<>>) : u \in Urls}
    \cup {Response("ok", <<>>, <<Entry("Moon", u)>>) : u \in Urls}
    \cup {Response("ok", <<Entry("demo", Str(CanonicalPrefix \o Rest))>>,
                         <<Entry("Moon", Str(CanonicalPrefix \o Rest))>>),
          Response("ok", <<>>, <<>>)}
    \cup {Response(kind, <<>>, <<>>) : kind \in {"status", "network", "malformed"}}

InitCloud ==
    /\ translators = <<>>
    /\ order = <<>>
    /\ listeners = NoListeners
    /\ files = <<>>
    /\ last = Outcome("init", "", "", NoDict, <<>>)
    /\ cloud = NoCloud
    /\ window = NoWindow
    /\ settings = DEFAULT_SETTINGS
    /\ pc = "idle"
    /\ input = <<>>

FetchRemoteManifest(force) ==
    LET r == fetchRemoteManifest(cloud, force)
    IN  /\ r.cloud.issued <= MaxRequests
        /\ cloud' = r.cloud
        /\ last' = [Outcome("fetchRemoteManifest", "", "", NoDict, <<>>) EXCEPT
                       !.force = force, !.promise = r.promise,
                       !.requested = r.requested]
        /\ UNCHANGED <<translators, order, listeners, files, pc, input, window, settings>>

\* the response of the request of promise p arrives
Resume(p, response) ==
    LET r == resume(cloud, p, response)
    IN  /\ p \in cloud.pending
        /\ cloud' = r.cloud
        /\ last' = [Outcome("resume", "", "", NoDict, <<>>) EXCEPT
                       !.promise = p, !.returned = r.settled, !.value = r.value,
                       !.io = response.kind]
        /\ input' = response
        /\ UNCHANGED <<translators, order, listeners, files, pc, window, settings>>

NextCloud ==
    \/ \E force \in BOOLEAN : FetchRemoteManifest(force)
    \/ \E p \in 1..MaxRequests, response \in Responses : Resume(p, response)

SpecCloud == InitCloud /\ [][NextCloud]_vars

\* C21 (as stated): a call without force made while a manifest request is in
\* flight issues no request and returns a promise whose request is in flight.
C21_SharedWhileInFlight ==
    [][(last'.op = "fetchRemoteManifest" /\ ~last'.force /\ cloud.pending # {})
        => (~last'.requested /\ cloud'.pending = cloud.pending
            /\ last'.promise \in cloud.pending)]_vars

\* What the code guarantees: a call without force shares the promise held in
\* fetchPromise, and that field is non-null only while a request is in flight.
C21_SharedWhileFetchPromise ==
    [][(last'.op = "fetchRemoteManifest" /\ ~last'.force /\ cloud.fetchPromise # 0)
        => (~last'.requested /\ cloud'.pending = cloud.pending
            /\ last'.promise = cloud.fetchPromise
            /\ last'.promise \in cloud.pending)]_vars

\* a response the try block cannot turn into a catalog: a status other
\* than 200, a rejected request, a body that is no manifest object, or an
\* entry whose downloadUrl is truthy and not a string
Failing(response) ==
    \/ response.kind # "ok"
    \/ \E i \in DOMAIN response.plugins :
           LET u == response.plugins[i].downloadUrl IN ~Falsy(u) /\ u.t # "string"
    \/ \E i \in DOMAIN response.themes :
           LET u == response.themes[i].downloadUrl IN ~Falsy(u) /\ u.t # "string"

\* C22: the promise of fetchRemoteManifest is never rejected.  When the
\* response is a failure it resolves to the empty list and the catalog is
\* emptied, whatever an earlier fetch had stored; when it is a manifest the
\* catalog has one entry per manifest entry, so a fetch after a failure
\* repopulates it; and the client is left ready for the next call.
C22_FetchNeverRejects ==
    [][last'.op = "resume"
        => /\ last'.returned = "resolve"
           /\ cloud'.fetchPromise = 0
           /\ Failing(input') =>
                  /\ last'.value = <<>>
                  /\ cloud'.remoteManifest = <<>>
           /\ ~Failing(input') =>
                  /\ last'.value = cloud'.remoteManifest
                  /\ Len(cloud'.remoteManifest) = Len(input'.plugins) + Len(input'.themes)
                  /\ cloud'.hasLoaded]_vars

\* a failed fetch has just discarded the catalog of an earlier successful one
C22_Witness ==
    /\ last.op = "resume"
    /\ last.io \in {"status", "network", "malformed"}
    /\ last.value = <<>>
    /\ cloud.hasLoaded
    /\ cloud.remoteManifest = <<>>
    /\ cloud.issued >= 2

\* the entries of a manifest in catalog order: plugins, then themes
Sent(response) == response.plugins \o response.themes

\* C23: after a successful fetch the catalog holds the manifest's entries,
\* plugins then themes, each with its downloadUrl rewritten: a URL that
\* began with the canonical prefix now is the mirror prefix followed by the
\* same remainder, every other downloadUrl is as sent, and no entry's
\* downloadUrl begins with the canonical prefix.
C23_UrlRewriting ==
    [][(last'.op = "resume" /\ ~Failing(input'))
        => /\ DOMAIN cloud'.remoteManifest = DOMAIN Sent(input')
           /\ \A i \in DOMAIN Sent(input') :
                  LET sent == Sent(input')[i]
                      kept == cloud'.remoteManifest[i]
                      n == Len(CanonicalPrefix)
                  IN  /\ [kept EXCEPT !.downloadUrl = sent.downloadUrl] = sent
                      /\ IF /\ sent.downloadUrl.t = "string"
                            /\ Len(sent.downloadUrl.s) >= n
                            /\ \A j \in 1..n : sent.downloadUrl.s[j] = CanonicalPrefix[j]
                         THEN /\ kept.downloadUrl.t = "string"
                              /\ kept.downloadUrl.s =
                                     MirrorPrefix \o [j \in 1..(Len(sent.downloadUrl.s) - n) |->
                                                         sent.downloadUrl.s[j + n]]
                         ELSE kept.downloadUrl = sent.downloadUrl
                      /\ ~(/\ kept.downloadUrl.t = "string"
                           /\ Len(kept.downloadUrl.s) >= n
                           /\ \A j \in 1..n : kept.downloadUrl.s[j] = CanonicalPrefix[j])]_vars

\* the catalog holds a plugin entry and a theme entry that were both sent
\* with a canonical URL and are both on the mirror now
C23_Witness ==
    /\ last.op = "resume"
    /\ ~Failing(input)
    /\ Len(input.plugins) = 1 /\ Len(input.themes) = 1
    /\ \A i \in 1..2 : Sent(input)[i].downloadUrl = Str(CanonicalPrefix \o Rest)
    /\ \A i \in 1..2 : cloud.remoteManifest[i].downloadUrl = Str(MirrorPrefix \o Rest)

-----------------------------------------------------------------------------
(* CloudManager.isUpdateAvailable.                                         *)
(*                                                                         *)
(* A version string is a sequence of characters, one atom each.  A JS      *)
(* number that is a non-negative integer is modelled by its decimal        *)
(* digits without leading zeros (zero is the empty sequence), because the  *)
(* values of interest do not fit a 32-bit integer; Number rounds as an     *)
(* IEEE double does, which is modelled for values below 2^54.              *)

IsDigit(c) == \E i \in 1..10 : DigitAtom[i] = c
DigitOf(c) == (CHOOSE i \in 1..10 : DigitAtom[i] = c) - 1

\* /^\d+$/.test(version)
IsTimestamp(version) ==
    /\ version # <<>>
    /\ \A i \in DOMAIN version : IsDigit(version[i])

RECURSIVE Normal(_)
\* the digits of a digit run as a number: leading zeros dropped
Normal(digits) ==
    IF digits = <<>> THEN <<>>
    ELSE IF digits[1] = "0" THEN Normal(Tail(digits))
    ELSE digits

\* a > b for two numbers given by their digits
Greater(a, b) ==
    \/ Len(a) > Len(b)
    \/ /\ Len(a) = Len(b)
       /\ \E i \in DOMAIN a :
              /\ DigitOf(a[i]) > DigitOf(b[i])
              /\ \A j \in 1..(i - 1) : a[j] = b[j]

RECURSIVE Successor(_)
\* n + 1 on digits
Successor(digits) ==
    IF digits = <<>> THEN <<"1">>
    ELSE LET n == Len(digits)
             d == DigitOf(digits[n])
         IN  IF d < 9 THEN SubSeq(digits, 1, n - 1) \o <<DigitAtom[d + 2]>>
             ELSE Successor(SubSeq(digits, 1, n - 1)) \o <<"0">>

\* 2^53 = 9007199254740992: up to it every integer is a double
TwoTo53 == <<"9", "0", "0", "7", "1", "9", "9", "2", "5", "4", "7", "4", "0", "9", "9", "2">>

\* the double nearest to an integer below 2^54: above 2^53 the doubles are
\* the even integers, and an odd integer goes to the neighbour whose
\* mantissa is even, the multiple of 4
ToDouble(digits) ==
    IF ~Greater(digits, TwoTo53) THEN digits
    ELSE LET n == Len(digits)
             d == DigitOf(digits[n])
             r == (10 * DigitOf(digits[n - 1]) + d) % 4
         IN  IF d % 2 = 0 THEN digits
             ELSE IF r = 1 THEN SubSeq(digits, 1, n - 1) \o <<DigitAtom[d]>>
             ELSE Successor(digits)

NaN == [nan |-> TRUE, digits |-> <<>>]

\* Number(text) for a text of digits and letters: the empty string is 0, a
\* digit run is its value as a double, anything else is NaN
Number(text) ==
    IF \A i \in DOMAIN text : IsDigit(text[i])
    THEN [nan |-> FALSE, digits |-> ToDouble(Normal(text))]
    ELSE NaN

RECURSIVE split(_)
\* version.split('.')
split(version) ==
    IF \A i \in DOMAIN version : version[i] # "."
    THEN <<version>>
    ELSE LET i == CHOOSE k \in DOMAIN version :
                      version[k] = "." /\ \A j \in 1..(k - 1) : version[j] # "."
         IN  <<SubSeq(version, 1, i - 1)>> \o split(SubSeq(version, i + 1, Len(version)))

\* parts[i] || 0: a missing part, NaN and 0 all give 0
PartOrZero(parts, i) ==
    IF i > Len(parts) \/ parts[i].nan THEN <<>> ELSE parts[i].digits

RECURSIVE CompareParts(_, _, _)
\* the for loop of isUpdateAvailable from index i on
CompareParts(localParts, remoteParts, i) ==
    IF i > Len(localParts) /\ i > Len(remoteParts) THEN FALSE
    ELSE LET v1 == PartOrZero(localParts, i)
             v2 == PartOrZero(remoteParts, i)
         IN  IF Greater(v2, v1) THEN TRUE
             ELSE IF Greater(v1, v2) THEN FALSE
             ELSE CompareParts(localParts, remoteParts, i + 1)

RECURSIVE LexicallyGreater(_, _)
\* a > b on strings of characters whose order is that of the digits, with
\* "." below them and letters above
LexicallyGreater(a, b) ==
    LET Code(c) == IF c = "." THEN 0 ELSE IF IsDigit(c) THEN 1 + DigitOf(c) ELSE 11
    IN  IF a = <<>> THEN FALSE
        ELSE IF b = <<>> THEN TRUE
        ELSE IF a[1] = b[1] THEN LexicallyGreater(Tail(a), Tail(b))
        ELSE Code(a[1]) > Code(b[1])

\* the versions are compared as strings
isUpdateAvailable_Lexical(localVersion, remoteVersion) ==
    IF Falsy(localVersion) THEN TRUE
    ELSE LexicallyGreater(remoteVersion.s, localVersion.s)

\* two timestamps are compared with >= instead of >
isUpdateAvailable_OrEqual(localVersion, remoteVersion) ==
    IF Falsy(localVersion) THEN TRUE
    ELSE IF IsTimestamp(localVersion.s) /\ IsTimestamp(remoteVersion.s)
    THEN ~Greater(Number(localVersion.s).digits, Number(remoteVersion.s).digits)
    ELSE LET localParts == [i \in DOMAIN split(localVersion.s) |->
                               Number(split(localVersion.s)[i])]
             remoteParts == [i \in DOMAIN split(remoteVersion.s) |->
                                Number(split(remoteVersion.s)[i])]
         IN  CompareParts(localParts, remoteParts, 1)

\* isUpdateAvailable; localVersion is a string or undefined, remoteVersion
\* a string
isUpdateAvailable(localVersion, remoteVersion) ==
    IF Falsy(localVersion) THEN TRUE
    ELSE IF IsTimestamp(localVersion.s) /\ IsTimestamp(remoteVersion.s)
    THEN Greater(Number(remoteVersion.s).digits, Number(localVersion.s).digits)
    ELSE LET localParts == [i \in DOMAIN split(localVersion.s) |->
                               Number(split(localVersion.s)[i])]
             remoteParts == [i \in DOMAIN split(remoteVersion.s) |->
                                Number(split(remoteVersion.s)[i])]
         IN  CompareParts(localParts, remoteParts, 1)

\* bound on the length of the enumerated version strings
MaxVersionLen == 3

VersionChars == {"0", "1", ".", "b"}

RECURSIVE VersionTexts(_)
VersionTexts(len) ==
    IF len = 0 THEN {<<>>}
    ELSE LET shorter == VersionTexts(len - 1)
         IN  shorter \cup {text \o <<c>> : text \in shorter, c \in VersionChars}

\* the versions of the documentation, a timestamp as saveDictionary writes
\* it, and integers around 2^53
NamedVersions ==
    {<<"5">>, <<"1", "2">>,
     <<"1", ".", "2", ".", "0">>, <<"1", ".", "1", "0", ".", "0">>,
     <<"0", ".", "0", ".", "0">>,
     <<"1", "7", "6", "2", "1", "8", "5", "6", "0", "0", "0", "0", "0">>,
     TwoTo53, Successor(TwoTo53), Successor(Successor(TwoTo53)),
     Successor(Successor(Successor(TwoTo53))),
     <<"1", ".">> \o Successor(TwoTo53)}

Versions == {Str(text) : text \in VersionTexts(MaxVersionLen) \cup NamedVersions}

InitVersions ==
    /\ translators = <<>>
    /\ order = <<>>
    /\ listeners = NoListeners
    /\ files = <<>>
    /\ last = Outcome("init", "", "", NoDict, <<>>)
    /\ cloud = NoCloud
    /\ window = NoWindow
    /\ settings = DEFAULT_SETTINGS
    /\ pc = "call"
    /\ input \in [localVersion : Versions \cup {Undefined}, remoteVersion : Versions]

\* the caller applies isUpdateAvailable to its arguments
ApplyIsUpdateAvailable ==
    /\ pc = "call"
    /\ last' = [Outcome("isUpdateAvailable", "", "", NoDict, <<>>) EXCEPT
                   !.returned = IF isUpdateAvailable(input.localVersion, input.remoteVersion)
                                THEN "true" ELSE "false"]
    /\ pc' = "done"
    /\ UNCHANGED <<translators, order, listeners, files, input, cloud, window, settings>>

SpecVersions == InitVersions /\ [][ApplyIsUpdateAvailable]_vars

\* a version all of whose dot-separated components are digit runs
IsDotted(version) ==
    \A i \in DOMAIN split(version) : IsTimestamp(split(version)[i])

\* the i-th component of a dotted version as an integer, 0 when missing
Component(version, i) ==
    IF i > Len(split(version)) THEN <<>> ELSE Normal(split(version)[i])

\* the comparison of the specification under a reading of the components:
\* the first position where the components differ decides
FirstUnequalDecides(localVersion, remoteVersion, Value(_)) ==
    LET n == IF Len(split(localVersion)) > Len(split(remoteVersion))
             THEN Len(split(localVersion)) ELSE Len(split(remoteVersion))
        unequal == {i \in 1..n : Value(Component(localVersion, i))
                                     # Value(Component(remoteVersion, i))}
    IN  /\ unequal # {}
        /\ LET first == CHOOSE i \in unequal : \A j \in unequal : i <= j
           IN  Greater(Value(Component(remoteVersion, first)),
                       Value(Component(localVersion, first)))

Exactly(digits) == digits

Returned(o) == o.returned = "true"

\* C24 (as stated): an absent or empty local version gives true; otherwise,
\* on versions made of digit runs and dots, the result is the comparison of
\* the components as integers, the first unequal component deciding.
C24_AsIntegers ==
    (last.op = "isUpdateAvailable")
        => IF Falsy(input.localVersion) THEN Returned(last)
           ELSE (IsDotted(input.localVersion.s) /\ IsDotted(input.remoteVersion.s))
                    => (Returned(last) <=> FirstUnequalDecides(input.localVersion.s,
                                                               input.remoteVersion.s, Exactly))

\* C24 (amended): the same with the components read as JavaScript numbers,
\* which are integers up to 2^53 and the nearest double above.
C24_AsNumbers ==
    (last.op = "isUpdateAvailable")
        => IF Falsy(input.localVersion) THEN Returned(last)
           ELSE (IsDotted(input.localVersion.s) /\ IsDotted(input.remoteVersion.s))
                    => (Returned(last) <=> FirstUnequalDecides(input.localVersion.s,
                                                               input.remoteVersion.s, ToDouble))

\* "1.2.0" against "1.10.0" has been compared and an update is reported
C24_Witness ==
    /\ last.op = "isUpdateAvailable"
    /\ input.localVersion = Str(<<"1", ".", "2", ".", "0">>)
    /\ input.remoteVersion = Str(<<"1", ".", "1", "0", ".", "0">>)
    /\ Returned(last)

-----------------------------------------------------------------------------
(* The fingerprint as a function of the text alone *)

\* the fingerprints of the stylesheets as a JavaScript engine prints them
Fingerprints ==
    {<<<<"body{}">>,
       <<"b", "2", "d", "c", "f", "8", "7", "4", "f", "4", "7", "c", "c">>>>,
     <<<<"/*", " ", "@settings", LF, "name: Dark", LF, "*/", "body{}">>,
       <<"6", "c", "d", "0", "6", "8", "7", "3", "c", "1", "f", "0", "8">>>>,
     <<<<"/*", "@settings", LF, "name: Dark", LF, "id: dark", LF, "*/">>,
       <<"d", "2", "1", "1", "4", "b", "3", "2", "4", "0", "6", "9", "8">>>>,
     <<<<"/*", "@settings", LF, "name: [", LF, "*/", "body{}">>,
       <<"3", "a", "f", "b", "b", "5", "6", "8", "c", "0", "5", "8">>>>}

-----------------------------------------------------------------------------
(* The adapter template of an extension (I18nAdapter, initI18n) and the    *)
(* start and stop of the core (initGlobalAPI, destroyGlobalAPI).           *)
(*                                                                         *)
(* An adapter is [currentLocale, lastSuccessfulLocale,                     *)
(* externalDictionaries]; window.adapters maps the id of each started      *)
(* extension to its adapter and window.ready lists, in order, the          *)
(* extensions whose register closure listens for i18n-plus:ready.  The     *)
(* object an extension registers delegates to its adapter: the registry    *)
(* holds Delegate(id).  A dictionary of the adapter maps keys to texts; a  *)
(* key that is missing and a key with the text "" both read as falsy.      *)

BASE_LOCALE == "en"

\* the built-in languages the developer has configured: en and zh.  zh has
\* no text for U
BUILTIN_LOCALES ==
    [locale \in {"en", "zh"} |->
        IF locale = "en" THEN [key \in {K, U} |-> IF key = K THEN <<"Hello">> ELSE <<"Bye">>]
        ELSE [key \in {K} |-> <<"NiHao">>]]

\* dictionaries[locale]?.[key], with undefined read as ""
TextOf(dictionaries, locale, key) ==
    IF locale \in DOMAIN dictionaries /\ key \in DOMAIN dictionaries[locale]
    THEN dictionaries[locale][key]
    ELSE <<>>

\* new I18nAdapter(pluginId, initialLocale), after moment's locale has been
\* read; "" stands for an absent locale
I18nAdapter(initialLocale, momentLocale) ==
    LET locale == IF initialLocale # "" THEN initialLocale
                  ELSE IF momentLocale # "" THEN momentLocale
                  ELSE "en"
    IN  [currentLocale |-> locale,
         lastSuccessfulLocale |-> IF locale \in DOMAIN BUILTIN_LOCALES THEN locale ELSE "en",
         externalDictionaries |-> <<>>]

\* t without the fallback to the last successful locale
adapterT_NoLastSuccessful(adapter, key) ==
    LET locale == adapter.currentLocale
        external == TextOf(adapter.externalDictionaries, locale, key)
        builtin == IF external = <<>> THEN TextOf(BUILTIN_LOCALES, locale, key) ELSE external
        base == IF builtin = <<>> /\ BASE_LOCALE # locale
                THEN TextOf(BUILTIN_LOCALES, BASE_LOCALE, key) ELSE builtin
    IN  [adapter |-> adapter, text |-> IF base = <<>> THEN key ELSE base]

\* I18nAdapter.t(key) without params: the text and the adapter afterwards
adapterT(adapter, key) ==
    LET locale == adapter.currentLocale
        external == TextOf(adapter.externalDictionaries, locale, key)
        found == external = <<>> /\ TextOf(BUILTIN_LOCALES, locale, key) # <<>>
        builtin == IF external = <<>> THEN TextOf(BUILTIN_LOCALES, locale, key) ELSE external
        lastSuccessful == IF found THEN locale ELSE adapter.lastSuccessfulLocale
        fallback == IF builtin = <<>> /\ lastSuccessful # locale
                    THEN TextOf(BUILTIN_LOCALES, lastSuccessful, key) ELSE builtin
        base == IF fallback = <<>> /\ BASE_LOCALE # locale /\ BASE_LOCALE # lastSuccessful
                THEN TextOf(BUILTIN_LOCALES, BASE_LOCALE, key) ELSE fallback
    IN  [adapter |-> [adapter EXCEPT !.lastSuccessfulLocale = lastSuccessful],
         text |-> IF base = <<>> THEN key ELSE base]

\* I18nAdapter.setLocale
adapterSetLocale(adapter, locale) == [adapter EXCEPT !.currentLocale = locale]

\* I18nAdapter.loadDictionary
adapterLoadDictionary(adapter, locale, dict) ==
    [adapter EXCEPT !.externalDictionaries =
        [l \in (DOMAIN @) \cup {locale} |-> IF l = locale THEN dict ELSE @[l]]]

\* I18nAdapter.unloadDictionary
adapterUnloadDictionary(adapter, locale) ==
    [adapter EXCEPT !.externalDictionaries = [l \in (DOMAIN @) \ {locale} |-> @[l]]]

\* the object literal that initI18n hands to register
Delegate(id) == [pluginId |-> id, baseLocale |-> BASE_LOCALE, adapter |-> id]

\* the register closure of initI18n: nothing without window.i18nPlus
registerClosure(w, trs, ord, id) ==
    IF ~w.i18nPlus THEN [translators |-> trs, order |-> ord, events |-> <<>>]
    ELSE [translators |-> register(trs, id, Delegate(id)).translators,
          order |-> KeysAfterSet(ord, id),
          events |-> register(trs, id, Delegate(id)).events]

\* initI18n without the listener for the ready broadcast
initI18n_NoReadyListener(w, trs, ord, id, initialLocale, momentLocale) ==
    LET r == registerClosure(w, trs, ord, id)
    IN  [window |-> [w EXCEPT !.adapters =
                        [i \in (DOMAIN @) \cup {id} |->
                            IF i = id THEN I18nAdapter(initialLocale, momentLocale) ELSE @[i]]],
         translators |-> r.translators, order |-> r.order, events |-> r.events]

\* initI18n(plugin): the adapter, a first register call, the listener
initI18n(w, trs, ord, id, initialLocale, momentLocale) ==
    LET r == registerClosure(w, trs, ord, id)
    IN  [window |-> [w EXCEPT !.adapters =
                        [i \in (DOMAIN @) \cup {id} |->
                            IF i = id THEN I18nAdapter(initialLocale, momentLocale) ELSE @[i]],
                              !.ready = Append(@, id)],
         translators |-> r.translators, order |-> r.order, events |-> r.events]

RECURSIVE dispatchReady(_, _, _, _)
\* window.dispatchEvent(i18n-plus:ready): the listeners run in the order in
\* which they were added, from the n-th on
dispatchReady(w, trs, ord, n) ==
    IF n > Len(w.ready) THEN [translators |-> trs, order |-> ord, events |-> <<>>]
    ELSE LET r == registerClosure(w, trs, ord, w.ready[n])
             rest == dispatchReady(w, r.translators, r.order, n + 1)
         IN  [translators |-> rest.translators, order |-> rest.order,
              events |-> r.events \o rest.events]

\* initGlobalAPI: the singleton is created if there is none, exposed as
\* window.i18nPlus, and the ready event is broadcast
initGlobalAPI(w, trs, ord) ==
    LET exposed == [w EXCEPT !.instance = TRUE, !.i18nPlus = TRUE]
        r == dispatchReady(exposed, trs, ord, 1)
    IN  [window |-> exposed, translators |-> r.translators, order |-> r.order,
         events |-> r.events]

\* destroyGlobalAPI: window.i18nPlus is deleted and the singleton dropped
destroyGlobalAPI(w) == [w EXCEPT !.i18nPlus = FALSE, !.instance = FALSE]

AdapterIds == {"demo", "ghost"}
AdapterLocales == {"en", "zh", "ja"}

\* external dictionaries: one without K, one with it, one with "" for it
ExternalDicts ==
    {[key \in {U} |-> <<"Sayonara">>],
     [key \in {K} |-> <<"Konnichiwa">>],
     [key \in {K} |-> <<>>]}

InitAdapter ==
    /\ translators = <<>>
    /\ order = <<>>
    /\ listeners = NoListeners
    /\ files = <<>>
    /\ last = Outcome("init", "", "", NoDict, <<>>)
    /\ cloud = NoCloud
    /\ window = NoWindow
    /\ settings = DEFAULT_SETTINGS
    /\ pc = "idle"
    /\ input = <<>>

\* the core plugin is loaded
InitGlobalAPI ==
    LET r == initGlobalAPI(window, translators, order)
    IN  /\ ~window.i18nPlus
        /\ window' = r.window
        /\ translators' = r.translators
        /\ order' = r.order
        /\ last' = [Outcome("initGlobalAPI", "", "", NoDict, <<>>) EXCEPT
                       !.events = r.events]
        /\ UNCHANGED <<listeners, files, pc, input, cloud, settings>>

\* the core plugin is unloaded: the manager goes with its maps
DestroyGlobalAPI ==
    /\ window' = destroyGlobalAPI(window)
    /\ translators' = <<>>
    /\ order' = <<>>
    /\ listeners' = NoListeners
    /\ last' = Outcome("destroyGlobalAPI", "", "", NoDict, <<>>)
    /\ UNCHANGED <<files, pc, input, cloud, settings>>

\* an extension is loaded
InitI18n(id, initialLocale, momentLocale) ==
    LET r == initI18n(window, translators, order, id, initialLocale, momentLocale)
    IN  /\ id \notin DOMAIN window.adapters
        /\ window' = r.window
        /\ translators' = r.translators
        /\ order' = r.order
        /\ last' = [Outcome("initI18n", id, initialLocale, NoDict, <<>>) EXCEPT
                       !.events = r.events]
        /\ UNCHANGED <<listeners, files, pc, input, cloud, settings>>

\* the extension, or the registry through the registered object, sets the
\* locale of the adapter
AdapterSetLocale(id, locale) ==
    /\ id \in DOMAIN window.adapters
    /\ window' = [window EXCEPT !.adapters[id] = adapterSetLocale(@, locale)]
    /\ last' = Outcome("adapter.setLocale", id, locale, NoDict, <<>>)
    /\ UNCHANGED <<translators, order, listeners, files, pc, input, cloud, settings>>

\* the registry hands an external dictionary to the registered object
AdapterLoadDictionary(id, locale, dict) ==
    /\ id \in DOMAIN translators
    /\ window' = [window EXCEPT !.adapters[id] = adapterLoadDictionary(@, locale, dict)]
    /\ last' = [Outcome("adapter.loadDictionary", id, locale, NoDict, <<>>) EXCEPT
                   !.events = <<Event("dictionary-loaded", id, locale)>>]
    /\ UNCHANGED <<translators, order, listeners, files, pc, input, cloud, settings>>

AdapterUnloadDictionary(id, locale) ==
    /\ id \in DOMAIN translators
    /\ window' = [window EXCEPT !.adapters[id] = adapterUnloadDictionary(@, locale)]
    /\ last' = [Outcome("adapter.unloadDictionary", id, locale, NoDict, <<>>) EXCEPT
                   !.events = <<Event("dictionary-unloaded", id, locale)>>]
    /\ UNCHANGED <<translators, order, listeners, files, pc, input, cloud, settings>>

AdapterT(id, key) ==
    /\ id \in DOMAIN window.adapters
    /\ LET r == adapterT(window.adapters[id], key)
       IN  /\ window' = [window EXCEPT !.adapters[id] = r.adapter]
           /\ last' = [Outcome("adapter.t", id, "", NoDict, key) EXCEPT
                          !.returned = "text", !.text = r.text]
    /\ UNCHANGED <<translators, order, listeners, files, pc, input, cloud, settings>>

NextAdapter ==
    \/ InitGlobalAPI
    \/ DestroyGlobalAPI
    \/ \E id \in AdapterIds, initialLocale \in {"", "zh", "ja"}, momentLocale \in {"", "zh"} :
           InitI18n(id, initialLocale, momentLocale)
    \/ \E id \in AdapterIds, locale \in AdapterLocales : AdapterSetLocale(id, locale)
    \/ \E id \in AdapterIds, dict \in ExternalDicts : AdapterLoadDictionary(id, "ja", dict)
    \/ \E id \in AdapterIds : AdapterUnloadDictionary(id, "ja")
    \/ \E id \in AdapterIds, key \in {K, U, KC} : AdapterT(id, key)

SpecAdapter == InitAdapter /\ [][NextAdapter]_vars

RECURSIVE FirstText(_)
\* the first element of a sequence of texts that is not ""
FirstText(texts) ==
    IF Len(texts) = 1 \/ Head(texts) # <<>> THEN Head(texts) ELSE FirstText(Tail(texts))

C27_LateRegistration ==
    window.i18nPlus =>
        \A id \in DOMAIN window.adapters :
            /\ id \in DOMAIN translators
            /\ translators[id] = Delegate(id)

\* the core has just been initialised with two extensions started, one of
\* which had registered with an earlier core: both are registered
C27_Witness ==
    /\ last.op = "initGlobalAPI"
    /\ window.i18nPlus
    /\ DOMAIN window.adapters = AdapterIds
    /\ DOMAIN translators = AdapterIds
    /\ Len(last.events) = 2
    /\ \E id \in AdapterIds : "ja" \in DOMAIN window.adapters[id].externalDictionaries

-----------------------------------------------------------------------------
(* The count that loadDictionariesForPlugin returns *)

\* the dictionary-loaded events of a call: one per dictionary that the
\* registry has loaded into the translator
LoadedBy(o) == SelectSeq(o.events, LAMBDA e : e.name = "dictionary-loaded")

\* C28 (as stated): loadDictionariesForPlugin returns the number of
\* dictionaries that were loaded into the translator; a file that parses and
\* is rejected by validation is not counted.
C28_CountsLoaded ==
    [][last'.op = "loadDictionariesForPlugin"
        => last'.count = Len(LoadedBy(last'))]_vars

\* What the code guarantees: every loaded dictionary is counted, and so is
\* every other file of the plugin that parses.
C28_CountsParsed ==
    [][last'.op = "loadDictionariesForPlugin"
        => /\ last'.count >= Len(LoadedBy(last'))
           /\ (last'.id \in DOMAIN translators /\ last'.io = "ok")
                  => last'.count = Cardinality(
                         {d \in listAllDictionaries(files, "ok") :
                             /\ d.pluginId = last'.id
                             /\ ~parse(files[d.filePath]).threw
                             /\ ~managerLoadDictionary(translators, last'.id, d.locale,
                                     parse(files[d.filePath]).doc).result.threw})]_vars

-----------------------------------------------------------------------------
(* The base dictionary in the translator's map *)

\* the translator as its constructor left it, under the present locale
AsConstructed(tr) ==
    [tr EXCEPT !.dictionaries = [l \in {tr.baseLocale} |-> tr.baseDictionary]]

\* C29 (as stated): in every reachable state the map of every translator
\* holds under baseLocale the base dictionary given to the constructor,
\* getDictionary(baseLocale) returns it, and a t() call made while
\* currentLocale is baseLocale returns what the base dictionary alone gives.
C29_BaseEntryKept ==
    /\ \A id \in DOMAIN translators :
           LET tr == translators[id]
           IN  /\ tr.baseLocale \in DOMAIN tr.dictionaries
               /\ tr.dictionaries[tr.baseLocale] = tr.baseDictionary
               /\ getDictionary(tr, tr.baseLocale) = [present |-> TRUE, dict |-> tr.baseDictionary]
    /\ (/\ last.op = "t"
        /\ last.id \in DOMAIN translators
        /\ translators[last.id].currentLocale = translators[last.id].baseLocale)
           => last.text = t(AsConstructed(translators[last.id]), last.key, NoParams)

\* What the code guarantees: the map always has an entry under baseLocale,
\* and getDictionary(baseLocale) returns the constructor's base dictionary
\* whatever that entry holds.
C29_BaseDictionaryReadable ==
    \A id \in DOMAIN translators :
        LET tr == translators[id]
        IN  /\ tr.baseLocale \in DOMAIN tr.dictionaries
            /\ getDictionary(tr, tr.baseLocale) = [present |-> TRUE, dict |-> tr.baseDictionary]

-----------------------------------------------------------------------------
(* Registration *)

\* C30: after register(id, translator) the directory holds the new
\* translator under id, in place of any earlier one, the other entries are
\* untouched and id is listed once; plugin-registered is emitted with id
\* once, every listener of it is invoked once, in order, and finds the
\* directory already updated.  After unregister(id) the id is not listed,
\* and Registry.loadDictionary for an id that is not registered reports
\* "not registered" and changes nothing.
C30_RegisterReplaces ==
    [][/\ last'.op = "register" =>
              /\ DOMAIN translators' = (DOMAIN translators) \cup {last'.id}
              /\ \E options \in BusOptions :
                     /\ options.pluginId = last'.id
                     /\ translators'[last'.id] = constructor(options)
              /\ \A id \in (DOMAIN translators) \ {last'.id} :
                     translators'[id] = translators[id]
              /\ getRegisteredPlugins(translators') = {order'[i] : i \in DOMAIN order'}
              /\ Cardinality({i \in DOMAIN order' : order'[i] = last'.id}) = 1
              /\ last'.events = <<Event("plugin-registered", last'.id, "")>>
              /\ InvokedCallbacks(last') = listeners["plugin-registered"]
              /\ \A i \in DOMAIN last'.invoked :
                     /\ last'.invoked[i].event = Event("plugin-registered", last'.id, "")
                     /\ last'.invoked[i].seen = Observe(translators')
       /\ last'.op = "unregister" =>
              /\ DOMAIN translators' = (DOMAIN translators) \ {last'.id}
              /\ \A i \in DOMAIN order' : order'[i] # last'.id
              /\ last'.events = <<>>
       /\ (last'.op = "manager.loadDictionary" /\ last'.id \notin DOMAIN translators) =>
              /\ ~last'.result.valid
              /\ last'.result.errors = {<<"$plugin">>}
              /\ translators' = translators]_vars

\* a register call has replaced an earlier translator of the same id, a
\* listener has been told, and the new translator has no overlay
C30_Witness ==
    /\ last.op = "register"
    /\ last.log = <<"already registered, replacing">>
    /\ Len(last.invoked) >= 1
    /\ getLoadedLocales(translators[last.id]) = {"en"}
    /\ Cardinality(DOMAIN translators) = 2

-----------------------------------------------------------------------------
(* Overlapping manifest fetches.                                           *)

\* the catalog is what the try and catch blocks make of this response alone
CatalogOf(response) ==
    /\ Failing(response) => cloud.remoteManifest = <<>>
    /\ ~Failing(response) =>
           /\ DOMAIN cloud.remoteManifest = DOMAIN Sent(response)
           /\ \A i \in DOMAIN Sent(response) :
                  /\ cloud.remoteManifest[i].owner = Sent(response)[i].owner
                  /\ cloud.remoteManifest[i].downloadUrl
                         = rewriteUrl(Sent(response)[i].downloadUrl).url

\* C35: once every manifest request that was issued has resolved, the cached
\* catalog is the result of the fetch whose response arrived last, whichever
\* call issued it (also the older one that a forced fetch superseded): it is
\* the value that fetch resolved to, made of that response alone.
C35_LastWriteWins ==
    (cloud.issued > 0 /\ cloud.pending = {})
        => /\ last.op = "resume"
           /\ cloud.remoteManifest = last.value
           /\ CatalogOf(input)

\* promise 1 was superseded by the forced promise 2, whose manifest arrived
\* first and was stored; the request of promise 1 failed last, and the
\* catalog is the empty result of that older fetch
C35_Witness ==
    /\ cloud.issued = 2 /\ cloud.pending = {}
    /\ last.op = "resume" /\ last.promise = 1
    /\ Failing(input)
    /\ cloud.hasLoaded
    /\ cloud.remoteManifest = <<>>

\* C37 (as stated): isFetching is true exactly while some manifest request
\* is in flight; in particular it is false only when no request is pending.
C37_FetchingWhilePending ==
    isFetching(cloud) <=> cloud.pending # {}

\* What the code guarantees: while isFetching is true the request of the
\* promise held in fetchPromise is in flight, and once the last pending
\* request has resolved isFetching is false.
C37_FetchingImpliesPending ==
    /\ isFetching(cloud) => cloud.fetchPromise \in cloud.pending
    /\ cloud.pending = {} => ~isFetching(cloud)

-----------------------------------------------------------------------------
(* isUpdateAvailable as an order.                                          *)

\* C40: on non-empty version strings isUpdateAvailable is irreflexive and
\* asymmetric: a version is never an update of itself, and when the remote
\* version is reported as an update of the local one, the local one is not
\* an update of the remote one; this includes a pure-digit timestamp
\* against a dotted version.
C40_StrictOrder ==
    (/\ last.op = "isUpdateAvailable"
     /\ input.localVersion.t = "string"
     /\ input.localVersion.s # <<>>
     /\ input.remoteVersion.s # <<>>)
        => /\ input.localVersion = input.remoteVersion => ~Returned(last)
           /\ Returned(last) => ~isUpdateAvailable(input.remoteVersion, input.localVersion)

\* the dotted version "1.1" against the timestamp "11": an update is
\* reported, and none in the other direction
C40_Witness ==
    /\ last.op = "isUpdateAvailable"
    /\ input.localVersion = Str(<<"1", ".", "1">>)
    /\ input.remoteVersion = Str(<<"1", "1">>)
    /\ Returned(last)
    /\ ~isUpdateAvailable(input.remoteVersion, input.localVersion)

-----------------------------------------------------------------------------
(* loadDictionariesForPlugin and the registration of its namespace.        *)

\* C33: loadDictionariesForPlugin called for an id that is not registered
\* at call time returns 0, reads no dictionary file (neither for the listing
\* nor for loading), emits nothing and leaves every Translator and every
\* file as it was.
C33_OnlyRegistered ==
    [][(last'.op = "loadDictionariesForPlugin" /\ last'.id \notin DOMAIN translators)
        => /\ last'.count = 0
           /\ last'.read = {}
           /\ last'.events = <<>>
           /\ translators' = translators
           /\ files' = files]_vars

\* the folder of a plugin that is not registered holds a dictionary that
\* would load, the listing works, and the call returned 0 and read nothing
C33_Witness ==
    /\ last.op = "loadDictionariesForPlugin"
    /\ last.id = "ghost"
    /\ last.io = "ok"
    /\ "ghost" \notin DOMAIN translators
    /\ getDictionaryFilePath("ghost", "fr") \in DOMAIN files
    /\ files[getDictionaryFilePath("ghost", "fr")] = stringify(Bonjour)
    /\ last.count = 0
    /\ last.read = {}

-----------------------------------------------------------------------------
(* extractSettings over stylesheets with several @settings blocks.         *)

\* bound on the number of @settings blocks of a stylesheet
MaxBlocks == 3

\* the bodies of the blocks: a name, an id, a name with an id, a body that
\* parseYaml rejects, and no body at all
BlockBodies ==
    {<<LF, "name: Dark", LF>>,
     <<LF, "id: dark", LF>>,
     <<LF, "name: Light", LF, "id: light", LF>>,
     <<LF, "name: [", LF>>,
     <<>>}

RECURSIVE Sheet(_)
\* the stylesheet with these blocks, a rule after each
Sheet(bodies) ==
    IF bodies = <<>> THEN <<>>
    ELSE <<"/*", " ", "@settings">> \o Head(bodies) \o <<"*/", "body{}">>
             \o Sheet(Tail(bodies))

BlockLists == UNION {[1..n -> BlockBodies] : n \in 1..MaxBlocks}

InitExtract ==
    /\ translators = <<>>
    /\ order = <<>>
    /\ listeners = NoListeners
    /\ files = <<>>
    /\ last = Outcome("init", "", "", NoDict, <<>>)
    /\ cloud = NoCloud
    /\ window = NoWindow
    /\ settings = DEFAULT_SETTINGS
    /\ pc = "call"
    /\ input \in BlockLists

\* the caller applies extractSettings to the stylesheet
ApplyExtractSettings ==
    /\ pc = "call"
    /\ last' = [Outcome("extractSettings", "", "", NoDict, <<>>) EXCEPT
                   !.returned = "value",
                   !.value = extractSettings(Sheet(input))]
    /\ pc' = "done"
    /\ UNCHANGED <<translators, order, listeners, files, input, cloud, window, settings>>

SpecExtract == InitExtract /\ [][ApplyExtractSettings]_vars

\* a body that parseYaml is given and rejects
Unparseable(body) == body # <<>> /\ parseYaml(body).threw

\* C36: extractSettings returns a value for every stylesheet, and for a
\* stylesheet with several @settings blocks the harvested strings and the
\* @@ids are those of the stylesheet without the blocks whose body fails to
\* parse, the ids in block order: such a block contributes nothing and the
\* blocks after it are still harvested.
C36_BlockFailuresIsolated ==
    (last.op = "extractSettings")
        => LET parseable == SelectSeq(input, LAMBDA body : ~Unparseable(body))
               theirs == Blocks(NoStrings, Sheet(parseable), 1)
               given == SelectSeq(parseable,
                                  LAMBDA body : body # <<>> /\ ~Falsy(parseYaml(body).id))
           IN  /\ last.returned = "value"
               /\ DOMAIN last.value.strings
                      = {theirs.names[i].s : i \in DOMAIN theirs.names}
                            \cup (IF theirs.ids = <<>> THEN {} ELSE {IdsKey})
               /\ \A key \in DOMAIN last.value.strings \ {IdsKey} :
                      last.value.strings[key] = Str(key)
               /\ last.value.ids = theirs.ids
               /\ last.value.ids = [i \in DOMAIN given |-> parseYaml(given[i]).id]
               /\ IdsKey \in DOMAIN last.value.strings
                      => last.value.strings[IdsKey]
                             = Str(<<"[">> \o Joined(theirs.ids) \o <<"]">>)

\* three blocks, the second of which fails to parse: the name of the first
\* and the name and the id of the third have been harvested
C36_Witness ==
    /\ last.op = "extractSettings"
    /\ input = <<<<LF, "name: Dark", LF>>, <<LF, "name: [", LF>>,
                 <<LF, "name: Light", LF, "id: light", LF>>>>
    /\ DOMAIN last.value.strings = {<<"Dark">>, <<"Light">>, IdsKey}
    /\ last.value.ids = <<Str(<<"light">>)>>

-----------------------------------------------------------------------------
(* DictionaryManagerView.handleCloudDownload for a plugin dictionary.      *)

\* CloudManager.downloadDictionary(url): response.kind is "ok" (status 200),
\* "status" (another status) or "network" (requestUrl rejects); response.doc
\* is response.json
downloadDictionary(response) ==
    IF response.kind # "ok" THEN [threw |-> TRUE, dict |-> NoDict]
    ELSE IF response.doc.t # "object" \/ response.doc.meta.t # "object"
            \/ Falsy(response.doc.meta.locale)
    THEN [threw |-> TRUE, dict |-> NoDict]
    ELSE [threw |-> FALSE, dict |-> response.doc]

\* what handleCloudDownload leaves when its catch block has run
DownloadFailed(trs, fs) ==
    [translators |-> trs, files |-> fs, result |-> NoResult, cb |-> <<>>,
     events |-> <<>>, notice |-> "failed"]

\* handleCloudDownload from saveDictionary on; s is what saveDictionary does
DownloadSaved(trs, id, locale, s) ==
    LET r == managerLoadDictionary(trs, id, locale, s.dict)
    IN  IF s.threw THEN DownloadFailed(trs, s.files)
        ELSE IF r.result.threw
        THEN [DownloadFailed(r.translators, s.files) EXCEPT !.cb = r.cb]
        ELSE [translators |-> r.translators, files |-> s.files, result |-> r.result,
              cb |-> r.cb, events |-> r.events, notice |-> "saved"]

\* handleCloudDownload(remote, false): remote.pluginId is "" when the
\* catalog entry has none
handleCloudDownload(trs, fs, remote, response, now, io) ==
    LET d == downloadDictionary(response)
    IN  IF d.threw \/ remote.pluginId = "" THEN DownloadFailed(trs, fs)
        ELSE DownloadSaved(trs, remote.pluginId, remote.locale,
                           saveDictionary(fs, remote.pluginId, remote.locale, d.dict,
                                          now, io))

\* the catalog entries the user can pick
Remotes == {[pluginId |-> id, locale |-> "fr"] : id \in {"demo", "ghost", ""}}

\* what the download URL answers: a dictionary, a dictionary with a value
\* that is no string, a dictionary without $meta, null, a status, no answer
Downloads ==
    {[kind |-> "ok", doc |-> Bonjour],
     [kind |-> "ok",
      doc |-> Dict(MetaObj(Str(<<"fr">>), Str(<<"1">>)), [key \in {K} |-> Num(42)])],
     [kind |-> "ok", doc |-> Dict(NoMeta, [key \in {K} |-> Str(<<"Salut">>)])],
     [kind |-> "ok", doc |-> NonObject("null")],
     [kind |-> "status", doc |-> NoDict],
     [kind |-> "network", doc |-> NoDict]}

HandleCloudDownload(remote, response, now, io) ==
    LET r == handleCloudDownload(translators, files, remote, response, now, io)
        e == emit(listeners, r.events, Observe(r.translators))
    IN  /\ translators' = r.translators
        /\ files' = r.files
        /\ last' = [Validated(Outcome("handleCloudDownload", remote.pluginId,
                                      remote.locale, response.doc, <<>>),
                              r.result, r.cb, r.events)
                        EXCEPT !.returned = r.notice, !.invoked = e.invoked,
                               !.now = now, !.io = io]
        /\ UNCHANGED <<order, listeners, pc, input, cloud, window, settings>>

NextDownload ==
    \/ \E options \in StoreOptions : Register(options)
    \/ \E id \in StoreIds : Unregister(id)
    \/ \E remote \in Remotes, response \in Downloads, now \in ImportTimes,
          io \in {"ok", "write"} :
           HandleCloudDownload(remote, response, now, io)
    \/ \E id \in StoreIds, locale \in StoreLocales, io \in {"ok", "remove"} :
           DeleteDictionary(id, locale, io)

SpecDownload == InitStore /\ [][NextDownload]_vars

\* C39 (as stated): when handleCloudDownload for a plugin dictionary has
\* created or changed a file, the downloaded dictionary was accepted by the
\* validation of the registry and is loaded for a registered plugin; a
\* download that fails validation leaves the files as they were.
C39_PersistedOnlyIfLoaded ==
    [][(last'.op = "handleCloudDownload" /\ files' # files)
        => /\ last'.id \in DOMAIN translators'
           /\ last'.result.valid
           /\ last'.locale \in DOMAIN translators'[last'.id].dictionaries]_vars

\* What the code guarantees: a file is created or changed only when the
\* download passed the $meta.locale check of downloadDictionary and the
\* adapter accepted the write, whatever the registry says afterwards; the
\* file then holds the stamped download.
C39_PersistedIfDownloaded ==
    [][(last'.op = "handleCloudDownload" /\ files' # files)
        => /\ last'.returned = "saved"
           /\ ~downloadDictionary([kind |-> "ok", doc |-> last'.dict]).threw
           /\ last'.io = "ok"
           /\ files' = write(files, getDictionaryFilePath(last'.id, last'.locale),
                             stringify(Stamp(last'.dict, last'.now).dict))]_vars

-----------------------------------------------------------------------------
(* The async functions of the store, one await at a time.                  *)
(*                                                                         *)
(* pc maps the name of every async function that can be under way to its   *)
(* position and its locals.  At an await of the adapter the function is    *)
(* suspended twice: until the adapter has looked at the files ("list",     *)
(* "read", "remove"), and from then until its continuation runs ("resume").*)
(* Every step in between belongs to another function or to a caller.       *)

TaskNames == {"handler", "handler2", "refresh", "startup", "delete"}

\* the callbacks of plugin-registered that can be under way at a time
HandlerNames == {"handler", "handler2"}

\* found is the answer of adapter.exists, content that of adapter.read
IdleTask ==
    [kind |-> "none", at |-> "idle", id |-> "", locale |-> "", infos |-> <<>>, n |-> 0,
     found |-> FALSE, content |-> Garbage, count |-> 0, raced |-> FALSE]

NoTasks == [name \in TaskNames |-> IdleTask]

\* the function has run up to the first await of listAllDictionaries
Started(kind, id) == [IdleTask EXCEPT !.kind = kind, !.at = "list", !.id = id]

\* where a function goes on when its loop over the files has ended:
\* loadDictionariesForPlugin and autoLoadDictionaries return the count;
\* the plugin-registered handler and the startup timer have a statement left
AfterLoop(kind) == IF kind \in {"handler", "startup"} THEN "apply" ELSE "done"

\* the orders in which the adapter can list a set of files
ListOrders(infos) ==
    {s \in [1 .. Cardinality(infos) -> infos] :
        \A i, j \in 1 .. Cardinality(infos) : s[i] = s[j] => i = j}

\* the files the function iterates over: all of them (autoLoadDictionaries)
\* or those of its plugin (dicts.filter of loadDictionariesForPlugin)
Wanted(task, fs) ==
    IF task.kind \in {"refresh", "startup"} THEN listAllDictionaries(fs, "ok")
    ELSE {d \in listAllDictionaries(fs, "ok") : d.pluginId = task.id}

\* listAllDictionaries has answered with the files in this order
Listed(task, infos) ==
    [task EXCEPT !.infos = infos, !.n = 1,
                 !.at = IF infos = <<>> THEN AfterLoop(task.kind) ELSE "read"]

\* the file the function is at: autoLoadDictionaries goes through
\* this.loadDictionary(info.pluginId, info.locale), loadDictionariesForPlugin
\* uses info.filePath
PathAt(task) ==
    IF task.kind \in {"refresh", "startup"}
    THEN getDictionaryFilePath(task.infos[task.n].pluginId, task.infos[task.n].locale)
    ELSE task.infos[task.n].filePath

\* adapter.exists and adapter.read have answered
ReadAnswered(task, fs) ==
    [task EXCEPT !.at = "resume",
                 !.found = PathAt(task) \in DOMAIN fs,
                 !.content = IF PathAt(task) \in DOMAIN fs THEN fs[PathAt(task)]
                             ELSE Garbage]

\* the files as the function has seen them at its last await
Seen(task) == IF task.found THEN write(<<>>, PathAt(task), task.content) ELSE <<>>

\* a locale the translator has an overlay for is not loaded again
Loaded_SkipLoaded(task, trs) ==
    IF /\ task.infos[task.n].pluginId \in DOMAIN trs
       /\ task.infos[task.n].locale \in DOMAIN trs[task.infos[task.n].pluginId].dictionaries
    THEN NothingLoaded(trs, Seen(task))
    ELSE IF task.kind \in {"refresh", "startup"}
    THEN AutoLoadFrom(NothingLoaded(trs, Seen(task)), <<task.infos[task.n]>>, 1, Seen(task))
    ELSE IF ~task.found THEN NothingLoaded(trs, Seen(task))
    ELSE LoadForPluginFrom(NothingLoaded(trs, Seen(task)), <<task.infos[task.n]>>, 1,
                           Seen(task), task.id)

\* the body of the loop after its awaits, on the registry as it is now
Loaded(task, trs) ==
    IF task.kind \in {"refresh", "startup"}
    THEN AutoLoadFrom(NothingLoaded(trs, Seen(task)), <<task.infos[task.n]>>, 1, Seen(task))
    ELSE IF ~task.found THEN NothingLoaded(trs, Seen(task))
    ELSE LoadForPluginFrom(NothingLoaded(trs, Seen(task)), <<task.infos[task.n]>>, 1,
                           Seen(task), task.id)

\* the function after that body: an exception of manager.loadDictionary
\* rejects the promise of autoLoadDictionaries; otherwise the next file, or
\* the end of the loop
Resumed(task, trs) ==
    IF Loaded(task, trs).threw THEN [task EXCEPT !.at = "rejected"]
    ELSE [task EXCEPT !.count = @ + Loaded(task, trs).count,
                      !.n = @ + 1,
                      !.at = IF task.n < Len(task.infos) THEN "read"
                             ELSE AfterLoop(task.kind)]

\* a step of an async function, as the outcome of a call
Stepped(step, name, task, events) ==
    [Outcome(step, name, "", NoDict, <<>>) EXCEPT
        !.returned = task.at, !.count = task.count, !.events = events]

Underway(task) == task.at \notin {"idle", "done", "rejected"}

\* pc after the function `name` has moved to `task`; raced records that
\* another function was under way at one of its steps
Advance(name, task) ==
    [pc EXCEPT ![name] =
        [task EXCEPT !.raced = @ \/ \E other \in TaskNames \ {name} :
                                       Underway(pc[other])]]

\* the adapter answers listAllDictionaries of the function `name`
List(name) ==
    /\ pc[name].at = "list"
    /\ \E infos \in ListOrders(Wanted(pc[name], files)) :
           /\ pc' = Advance(name, Listed(pc[name], infos))
           /\ last' = Stepped("list", name, Listed(pc[name], infos), <<>>)
    /\ UNCHANGED <<translators, order, listeners, files, input, cloud, window, settings>>

\* the adapter answers exists and read for the file the function is at
Read(name) ==
    /\ pc[name].at = "read"
    /\ pc' = Advance(name, ReadAnswered(pc[name], files))
    /\ last' = Stepped("read", name, ReadAnswered(pc[name], files), <<>>)
    /\ UNCHANGED <<translators, order, listeners, files, input, cloud, window, settings>>

\* the function goes on after its read: JSON.parse and manager.loadDictionary
Continue(name) ==
    /\ pc[name].at = "resume"
    /\ translators' = Loaded(pc[name], translators).translators
    /\ pc' = Advance(name, Resumed(pc[name], translators))
    /\ last' = Stepped("resume", name, Resumed(pc[name], translators),
                       Loaded(pc[name], translators).events)
    /\ UNCHANGED <<order, listeners, files, input, cloud, window, settings>>

-----------------------------------------------------------------------------
(* loadDictionariesForPlugin racing with autoLoadDictionaries.             *)

Hallo == Dict(MetaObj(Str(<<"de">>), Str(<<"1">>)), [key \in {K} |-> Str(<<"Hallo">>)])

\* a file the registry throws on: its $meta is null
NullMeta == Dict(MetaNull, [key \in {K} |-> Str(<<"Hallo">>)])

Unloadable == Dict(MetaObj(Str(<<"fr">>), Str(<<"1">>)), [key \in {K} |-> Num(42)])

\* the folder of the dictionaries: two overlays of "demo"; one that throws
\* and one that loads; one that validation rejects and the file of a plugin
\* that is not registered; a file that does not parse; nothing
RaceDisks ==
    {write(write(<<>>, getDictionaryFilePath("demo", "fr"), stringify(Bonjour)),
           getDictionaryFilePath("demo", "de"), stringify(Hallo)),
     write(write(<<>>, getDictionaryFilePath("demo", "fr"), stringify(Bonjour)),
           getDictionaryFilePath("demo", "de"), stringify(NullMeta)),
     write(write(<<>>, getDictionaryFilePath("demo", "fr"), stringify(Unloadable)),
           getDictionaryFilePath("ghost", "fr"), stringify(Bonjour)),
     write(<<>>, getDictionaryFilePath("demo", "fr"), Garbage),
     <<>>}

\* "demo" as registered, and "demo" with an overlay that is not the one on disk
Registered(options) == register(<<>>, options.pluginId, constructor(options)).translators

RaceRegistries ==
    UNION {{Registered(options),
            managerLoadDictionary(Registered(options), options.pluginId, "fr",
                                  Dict(MetaObj(Str(<<"fr">>), Str(<<"0">>)),
                                       [key \in {K} |-> Str(<<"Salut">>)])).translators} :
              options \in StoreOptions}

InitRace ==
    /\ translators \in RaceRegistries
    /\ order = <<"demo">>
    /\ listeners = NoListeners
    /\ files \in RaceDisks
    /\ last = Outcome("init", "", "", NoDict, <<>>)
    /\ cloud = NoCloud
    /\ window = NoWindow
    /\ settings = DEFAULT_SETTINGS
    /\ pc = NoTasks
    /\ input = [translators |-> translators, files |-> files]

\* loadDictionariesForPlugin(id) is called: it runs up to its first await,
\* or returns 0 at once
CallLoadDictionariesForPlugin(id) ==
    /\ pc["handler"].at = "idle"
    /\ pc' = [pc EXCEPT !["handler"] =
                 IF id \in DOMAIN translators THEN Started("loadForPlugin", id)
                 ELSE [IdleTask EXCEPT !.kind = "loadForPlugin", !.id = id, !.at = "done"]]
    /\ last' = Outcome("loadDictionariesForPlugin", id, "", NoDict, <<>>)
    /\ UNCHANGED <<translators, order, listeners, files, input, cloud, window, settings>>

\* the command "reload dictionaries": autoLoadDictionaries is called
CallAutoLoadDictionaries ==
    /\ pc["refresh"].at = "idle"
    /\ pc' = [pc EXCEPT !["refresh"] = Started("refresh", "")]
    /\ last' = Outcome("autoLoadDictionaries", "", "", NoDict, <<>>)
    /\ UNCHANGED <<translators, order, listeners, files, input, cloud, window, settings>>

NextRace ==
    \/ \E id \in {"demo"} : CallLoadDictionariesForPlugin(id)
    \/ CallAutoLoadDictionaries
    \/ \E name \in {"handler", "refresh"} : List(name)
    \/ \E name \in {"handler", "refresh"} : Read(name)
    \/ \E name \in {"handler", "refresh"} : Continue(name)

SpecRace == InitRace /\ [][NextRace]_vars

Settled(task) == task.at \in {"done", "rejected"}

\* the overlays of every registered translator
Overlays(trs) == [id \in DOMAIN trs |-> trs[id].dictionaries]

\* C34: when loadDictionariesForPlugin for a namespace and
\* autoLoadDictionaries have both run to their end, in whatever order their
\* awaits were answered and with no file written meanwhile, the overlays of
\* the translators and the stored files are those that the two calls leave
\* when one runs after the other has returned, in either order.
C34_RaceIsHarmless ==
    (Settled(pc["handler"]) /\ Settled(pc["refresh"]))
        => LET first == loadDictionariesForPlugin(input.translators, input.files,
                                                  pc["handler"].id, "ok")
               second == autoLoadDictionaries(first.translators, input.files, "ok")
               auto == autoLoadDictionaries(input.translators, input.files, "ok")
               plugin == loadDictionariesForPlugin(auto.translators, input.files,
                                                   pc["handler"].id, "ok")
           IN  /\ Overlays(translators) = Overlays(second.translators)
               /\ Overlays(translators) = Overlays(plugin.translators)
               /\ files = input.files

\* both calls were under way at the same time and both have ended: the
\* overlay that was loaded before is replaced by the one on disk, and the
\* second overlay is loaded
C34_Witness ==
    /\ Settled(pc["handler"]) /\ Settled(pc["refresh"])
    /\ pc["handler"].raced /\ pc["refresh"].raced
    /\ pc["handler"].count = 2 /\ pc["refresh"].count = 2
    /\ "fr" \in DOMAIN input.translators["demo"].dictionaries
    /\ input.translators["demo"].dictionaries["fr"].entries[K] = Str(<<"Salut">>)
    /\ translators["demo"].dictionaries["fr"].entries[K] = Str(<<"Bonjour">>)
    /\ "de" \in DOMAIN translators["demo"].dictionaries

-----------------------------------------------------------------------------
(* The delete flow of the dictionary manager racing with a refresh.        *)

\* the callback of the confirmation: manager.unloadDictionary, then
\* store.deleteDictionary up to its await of adapter.exists
ConfirmDelete(id, locale) ==
    LET r == managerUnloadDictionary(translators, id, locale)
        e == emit(listeners, r.events, Observe(r.translators))
    IN  /\ pc["delete"].at = "idle"
        /\ getDictionaryFilePath(id, locale) \in DOMAIN files
        /\ translators' = r.translators
        /\ pc' = Advance("delete", [IdleTask EXCEPT !.kind = "delete", !.at = "remove",
                                                    !.id = id, !.locale = locale])
        /\ last' = [Emitted(Outcome("manager.unloadDictionary", id, locale, NoDict, <<>>),
                            r.events, e)
                        EXCEPT !.log = r.log]
        /\ UNCHANGED <<order, listeners, files, input, cloud, window, settings>>

\* the adapter answers exists and remove of deleteDictionary, and the
\* callback ends
Remove(name) ==
    LET r == deleteDictionary(files, pc[name].id, pc[name].locale, "ok")
    IN  /\ pc[name].at = "remove"
        /\ files' = r.files
        /\ pc' = Advance(name, [pc[name] EXCEPT !.at = "done"])
        /\ last' = [Outcome("deleteDictionary", pc[name].id, pc[name].locale, NoDict, <<>>)
                        EXCEPT !.returned = IF r.deleted THEN "true" ELSE "false"]
        /\ UNCHANGED <<translators, order, listeners, input, cloud, window, settings>>

NextDelete ==
    \/ \E id \in StoreIds, locale \in {"fr", "de"} : ConfirmDelete(id, locale)
    \/ Remove("delete")
    \/ CallAutoLoadDictionaries
    \/ List("refresh")
    \/ Read("refresh")
    \/ Continue("refresh")

SpecDelete == InitRace /\ [][NextDelete]_vars

\* the locale of the delete flow is neither on disk nor an overlay
Gone(task) ==
    /\ getDictionaryFilePath(task.id, task.locale) \notin DOMAIN files
    /\ task.id \in DOMAIN translators
           => task.locale \notin DOMAIN translators[task.id].dictionaries

\* C38 (as stated): once the delete flow and every autoLoadDictionaries that
\* ran concurrently with it have completed, the deleted locale is neither
\* persisted on disk nor loaded as an overlay of the plugin's translator.
C38_DeletedStaysDeleted ==
    (pc["delete"].at = "done" /\ ~Underway(pc["refresh"])) => Gone(pc["delete"])

\* What the code guarantees: the same when no autoLoadDictionaries was
\* under way at any step of the delete flow, and the delete flow at none of
\* its steps.
C38_DeletedWithoutRace ==
    (pc["delete"].at = "done" /\ ~Underway(pc["refresh"])
     /\ ~pc["delete"].raced /\ ~pc["refresh"].raced) => Gone(pc["delete"])

-----------------------------------------------------------------------------
(* The core plugin from onload on: its two listeners, the startup timer,   *)
(* and the extensions that register before and after.                      *)
(*                                                                         *)
(* input.saved is the currentLocale that loadData answers, input.early the *)
(* extensions that started before the core and register when the ready     *)
(* event is dispatched.  An extension registers an I18nTranslator.         *)

SessionLocales == {"fr", "de"}

\* the folder of the dictionaries when the core starts: one overlay of
\* "demo", or nothing
SessionDisks ==
    {write(<<>>, getDictionaryFilePath("demo", "fr"), stringify(Bonjour)),
     <<>>}

RECURSIVE RegisterAll(_, _, _)
\* the ready listeners of the extensions in `waiting` run one after another
RegisterAll(trs, ord, waiting) ==
    IF waiting = {} THEN [translators |-> trs, order |-> ord]
    ELSE LET options == CHOOSE o \in waiting : TRUE
         IN  RegisterAll(register(trs, options.pluginId, constructor(options)).translators,
                         KeysAfterSet(ord, options.pluginId),
                         waiting \ {options})

\* the callbacks the core attaches in onload
CoreListeners(ls) ==
    on(on(ls, "locale-changed", "savePreference"), "plugin-registered", "reconcile")

HasCallback(ls, name, callback) == \E i \in DOMAIN ls[name] : ls[name][i] = callback

InitSession ==
    /\ translators = <<>>
    /\ order = <<>>
    /\ listeners = NoListeners
    /\ files \in SessionDisks
    /\ last = Outcome("init", "", "", NoDict, <<>>)
    /\ cloud = NoCloud
    /\ window = NoWindow
    /\ settings = DEFAULT_SETTINGS
    /\ pc = NoTasks
    /\ input \in [saved : {"", "fr"}, early : SUBSET StoreOptions]

\* I18nPlusPlugin.onload after loadSettings has answered: initGlobalAPI
\* dispatches the ready event, on which the extensions that wait register
\* (the event plugin-registered finds no callback yet); then the callbacks
\* are attached and the timer is set
Onload ==
    LET r == RegisterAll(translators, order, input.early)
    IN  /\ ~window.i18nPlus
        /\ settings' = [settings EXCEPT !.currentLocale = input.saved]
        /\ window' = [window EXCEPT !.i18nPlus = TRUE, !.instance = TRUE]
        /\ translators' = r.translators
        /\ order' = r.order
        /\ listeners' = CoreListeners(listeners)
        /\ pc' = [pc EXCEPT !["startup"] = [IdleTask EXCEPT !.kind = "startup",
                                                            !.at = "armed"]]
        /\ last' = [Outcome("onload", "", "", NoDict, <<>>) EXCEPT
                       !.events = [i \in 1 .. Len(r.order) |->
                                      Event("plugin-registered", r.order[i], "")],
                       !.invoked = <<>>]
        /\ UNCHANGED <<files, input, cloud>>

\* an extension registers while the core is loaded: the callback of
\* plugin-registered runs up to the first await of loadDictionariesForPlugin
RegisterLate(options) ==
    LET name == IF Underway(pc["handler"]) THEN "handler2" ELSE "handler"
    IN  /\ window.i18nPlus
        /\ ~Underway(pc[name])
        /\ DoRegister(options)
        /\ pc' = [pc EXCEPT ![name] =
                     IF HasCallback(listeners, "plugin-registered", "reconcile")
                     THEN Started("handler", options.pluginId) ELSE @]
        /\ UNCHANGED <<listeners, files, input, cloud, window, settings>>

\* the callback of locale-changed: this.settings.currentLocale = locale
savePreference(s, ls, locale) ==
    IF HasCallback(ls, "locale-changed", "savePreference") /\ locale # s.currentLocale
    THEN [s EXCEPT !.currentLocale = locale]
    ELSE s

\* manager.setGlobalLocale(locale) while the core is loaded
SessionSetGlobalLocale(locale) ==
    /\ window.i18nPlus
    /\ DoSetGlobalLocale(locale)
    /\ settings' = savePreference(settings, listeners, locale)
    /\ UNCHANGED <<listeners, files, pc, input, cloud, window>>

\* the timer of onload fires: autoLoadDictionaries is called
TimerFires ==
    /\ pc["startup"].at = "armed"
    /\ pc' = Advance("startup", Started("startup", ""))
    /\ last' = Outcome("autoLoadDictionaries", "", "", NoDict, <<>>)
    /\ UNCHANGED <<translators, order, listeners, files, input, cloud, window, settings>>

\* setLocale is called whenever a preference is saved
applyPreference_Always(trs, id, s) ==
    IF s.currentLocale # "" /\ id \in DOMAIN trs
    THEN [translators |-> [trs EXCEPT ![id] = setLocale(@, s.currentLocale)],
          called |-> TRUE]
    ELSE [translators |-> trs, called |-> FALSE]

\* the end of the plugin-registered callback, after
\* loadDictionariesForPlugin has returned
applyPreference(trs, id, s) ==
    IF /\ s.currentLocale # ""
       /\ id \in DOMAIN trs
       /\ trs[id].currentLocale # s.currentLocale
    THEN [translators |-> [trs EXCEPT ![id] = setLocale(@, s.currentLocale)],
          called |-> TRUE]
    ELSE [translators |-> trs, called |-> FALSE]

\* the end of the timer callback, after autoLoadDictionaries has returned
restoreLocale(trs, ord, s) ==
    IF s.currentLocale # "" THEN setGlobalLocale(trs, ord, s.currentLocale)
    ELSE [translators |-> trs, events |-> <<>>, seen |-> Observe(trs)]

\* the last statement of the plugin-registered callback and of the timer
\* callback
Apply(name) ==
    /\ pc[name].at = "apply"
    /\ pc' = Advance(name, [pc[name] EXCEPT !.at = "done"])
    /\ IF pc[name].kind = "handler"
       THEN LET r == applyPreference(translators, pc[name].id, settings)
            IN  /\ translators' = r.translators
                /\ last' = [Outcome("finish", name, settings.currentLocale, NoDict, <<>>)
                               EXCEPT !.log = IF r.called
                                              THEN <<"Applied locale preference">>
                                              ELSE <<>>,
                                      !.count = pc[name].count]
       ELSE LET r == restoreLocale(translators, order, settings)
                e == emit(listeners, r.events, r.seen)
            IN  /\ translators' = r.translators
                /\ last' = [Emitted(Outcome("finish", name, settings.currentLocale,
                                            NoDict, <<>>), r.events, e)
                               EXCEPT !.count = pc[name].count]
    /\ UNCHANGED <<order, listeners, files, input, cloud, window, settings>>

NextSession ==
    \/ Onload
    \/ \E options \in StoreOptions : RegisterLate(options)
    \/ \E id \in {"demo"} : window.i18nPlus /\ Unregister(id)
    \/ \E locale \in SessionLocales : SessionSetGlobalLocale(locale)
    \/ TimerFires
    \/ \E name \in HandlerNames \cup {"startup"} : List(name)
    \/ \E name \in HandlerNames \cup {"startup"} : Read(name)
    \/ \E name \in HandlerNames \cup {"startup"} : Continue(name)
    \/ \E name \in HandlerNames \cup {"startup"} : Apply(name)

SpecSession == InitSession /\ [][NextSession]_vars

\* C32: when the plugin-registered callback of an extension ends while a
\* non-empty preference is saved and the extension is registered, the
\* currentLocale of its translator is the preference as it is at that
\* moment, whatever it was when the callback started; and setLocale has
\* been called exactly when the translator reported another locale.
C32_PreferenceApplied ==
    [][(last'.op = "finish" /\ last'.id \in HandlerNames)
        => LET id == pc[last'.id].id
               preference == settings'.currentLocale
           IN  /\ (preference # "" /\ id \in DOMAIN translators')
                      => translators'[id].currentLocale = preference
               /\ (last'.log # <<>>)
                      <=> /\ preference # ""
                          /\ id \in DOMAIN translators
                          /\ translators[id].currentLocale # preference
               /\ last'.log = <<>> => translators' = translators]_vars

\* the callback started with the preference "fr" saved, setGlobalLocale
\* changed it to "de" while the callback awaited the adapter, and the
\* callback has ended without calling setLocale: the translator reports "de"
C32_Witness ==
    /\ last.op = "finish" /\ last.id = "handler"
    /\ input.saved = "fr"
    /\ settings.currentLocale = "de"
    /\ last.log = <<>>
    /\ pc["handler"].id \in DOMAIN translators
    /\ translators[pc["handler"].id].currentLocale = "de"
    /\ pc["handler"].count > 0

-----------------------------------------------------------------------------
(* From registration to the overlays: the startup of the core under fair   *)
(* scheduling.  The adapter answers every call, a timer that is set fires, *)
(* a continuation that can run does run; nothing obliges an extension or   *)
(* the user to act.                                                        *)

\* the folder when the core starts: one overlay of "demo"; one that loads
\* and one on which the registry throws
StartupDisks ==
    {write(<<>>, getDictionaryFilePath("demo", "fr"), stringify(Bonjour)),
     write(write(<<>>, getDictionaryFilePath("demo", "fr"), stringify(Bonjour)),
           getDictionaryFilePath("demo", "de"), stringify(NullMeta))}

InitStartup ==
    /\ translators = <<>>
    /\ order = <<>>
    /\ listeners = NoListeners
    /\ files \in StartupDisks
    /\ last = Outcome("init", "", "", NoDict, <<>>)
    /\ cloud = NoCloud
    /\ window = NoWindow
    /\ settings = DEFAULT_SETTINGS
    /\ pc = NoTasks
    /\ input \in [saved : {""}, early : SUBSET StoreOptions]

\* one callback of plugin-registered at a time here: an extension registers
\* again when the callback of its last registration has ended
StartupTasks == {"handler", "startup"}

NextStartup ==
    \/ Onload
    \/ \E options \in StoreOptions : ~Underway(pc["handler"]) /\ RegisterLate(options)
    \/ \E id \in {"demo"} : window.i18nPlus /\ Unregister(id)
    \/ TimerFires
    \/ \E name \in StartupTasks : List(name)
    \/ \E name \in StartupTasks : Read(name)
    \/ \E name \in StartupTasks : Continue(name)
    \/ \E name \in StartupTasks : Apply(name)

\* a step of a task at an await: at most one of the three is enabled
Answer(name) == List(name) \/ Read(name) \/ Apply(name)

\* WF_vars(Continue(name)), with ENABLED <<Continue(name)>>_vars written as
\* the guard of Continue: the step always moves pc[name] on
ContinueIsFair(name) ==
    []<>(pc[name].at # "resume") \/ []<><<Continue(name)>>_vars

\* the event loop runs every callback that is due: the callback of onload,
\* the timer of 3 s, the answers of the adapter and the continuations
FairStartup ==
    /\ InitStartup /\ [][NextStartup]_vars
    /\ WF_vars(Onload)
    /\ WF_vars(TimerFires)
    /\ \A name \in StartupTasks : WF_vars(Answer(name)) /\ ContinueIsFair(name)

\* the extension is registered and the file of the locale is on disk, is
\* JSON and passes the validation of its translator
LoadableOnDisk(id, locale) ==
    /\ id \in DOMAIN translators
    /\ getDictionaryFilePath(id, locale) \in DOMAIN files
    /\ ~parse(files[getDictionaryFilePath(id, locale)]).threw
    /\ LET r == managerLoadDictionary(translators, id, locale,
                                      parse(files[getDictionaryFilePath(id, locale)]).doc)
       IN  ~r.result.threw /\ r.result.valid

\* the locale is an overlay of the translator, or the extension has not
\* stayed registered
LoadedOrLeft(id, locale) ==
    id \in DOMAIN translators => locale \in DOMAIN translators[id].dictionaries

\* a file on which manager.loadDictionary throws
Throwing(fs) ==
    \E path \in DOMAIN fs :
        /\ ~parse(fs[path]).threw
        /\ parse(fs[path]).doc.t = "object"
        /\ parse(fs[path]).doc.meta.t = "null"

\* C31 (as stated): whenever an extension is registered, be it on the ready
\* broadcast before the core has attached its callback or later, every
\* dictionary of it that is on disk and passes validation is eventually an
\* overlay of its translator, unless the extension does not stay registered.
C31_EventuallyLoaded ==
    \A locale \in SessionLocales :
        LoadableOnDisk("demo", locale) ~> LoadedOrLeft("demo", locale)

\* What the code guarantees: the same when no file of the folder makes
\* manager.loadDictionary throw.
C31_EventuallyLoadedUnlessThrown ==
    \A locale \in SessionLocales :
        (LoadableOnDisk("demo", locale) /\ ~Throwing(files))
            ~> LoadedOrLeft("demo", locale)

====
